---- MODULE Spec2Model ----
(***************************************************************************)
(* A model of the greenroom MCP tools: the genre catalog fetcher           *)
(* (tools/fetching_tools.py), the media discovery tools                    *)
(* (tools/discovery_tools.py), the record validators they share, the mood  *)
(* categorizer and genre simplifier (tools/operations_tools.py) and the    *)
(* comparator of two models' replies (tools/agent_tools.py).               *)
(*                                                                         *)
(* One invocation of one operation is in progress at a time (every entity  *)
(* is request-scoped): `op` names it, `pc` is its position, `args` its     *)
(* arguments, `loc` its local variables, `net` the calls it has made so    *)
(* far on the provider, the sampling context and the model server, and     *)
(* `ret` its outcome.  Spec is the program with a host whose warning sink  *)
(* takes every notice; HostSpec adds the steps in which the sink raises.   *)
(***************************************************************************)
EXTENDS Integers, Sequences, FiniteSets, TLC

VARIABLES op, pc, env, args, loc, net, ret

vars == <<op, pc, env, args, loc, net, ret>>

(***************************************************************************)
(* Bounds of the model.                                                    *)
(***************************************************************************)
\* the longest genre list a provider body carries
MaxGenres == 2
\* the longest result list a discovery body carries
MaxItems == 3

(***************************************************************************)
(* JSON values of a raw record's field.  t is the JSON kind; n the number  *)
(* (for "int", and the number a numeric string spells for "numstr"); s the *)
(* text.  "absent" is a key the record does not have.                      *)
(***************************************************************************)
Absent == [t |-> "absent", n |-> 0, s |-> ""]
JNull == [t |-> "null", n |-> 0, s |-> ""]
JInt(n) == [t |-> "int", n |-> n, s |-> ""]
JStr(s) == [t |-> "str", n |-> 0, s |-> s]
JNumStr(n) == [t |-> "numstr", n |-> n, s |-> ""]

\* all sequences over S of length at most n
SeqsUpTo(S, n) == UNION {[1..k -> S] : k \in 0..n}

\* the empty mapping (a Python dict with no keys)
EmptyMap == [k \in {} |-> 0]

(***************************************************************************)
(* Outcomes.  An exception carries its Python type, the fixed part of its  *)
(* message and, for a provider error, the status code and body text that   *)
(* the message interpolates.                                               *)
(***************************************************************************)
Exc(type, msg, status, text) == [type |-> type, msg |-> msg, status |-> status, text |-> text]
NoExc == Exc("", "", 0, "")
NoReturn == [kind |-> "none", exc |-> NoExc, value |-> EmptyMap]
Raise(e) == [kind |-> "raise", exc |-> e, value |-> EmptyMap]
Return(v) == [kind |-> "return", exc |-> NoExc, value |-> v]

(***************************************************************************)
(* The provider.  A response is a transport failure (httpx.RequestError)   *)
(* or carries a status code, a body text and, when the body is JSON, what  *)
(* it parses to.                                                           *)
(***************************************************************************)
\* values of the TMDB_API_KEY environment variable
ApiKeys == {"unset", "", "test_api_key"}
StatusCodes == {200, 401, 500}
ErrorTexts == {"Invalid API key", "Internal error"}

\* httpx.Response.is_success
is_success(status) == 200 <= status /\ status <= 299

\* raw genre records a body may carry: each field is missing or has the
\* JSON type the provider gives it
GenreRecords ==
    { [id |-> JInt(28), name |-> JStr("Action")],
      [id |-> JInt(18), name |-> JStr("Drama")],
      [id |-> JInt(99), name |-> JStr("Drama")],
      [id |-> JInt(18), name |-> Absent],
      [id |-> Absent, name |-> JStr("Action")],
      [id |-> Absent, name |-> Absent] }

GenreLists == SeqsUpTo(GenreRecords, MaxGenres)

\* what a genre endpoint's body parses to: an object with a "genres" list,
\* an object without that key, a JSON value that is no object, an object
\* whose "genres" entries are no records, or text that is not JSON
Body(kind, genres) == [kind |-> kind, genres |-> genres]
GenreBodies ==
    {Body("genres", g) : g \in GenreLists}
    \cup {Body(k, <<>>) : k \in {"no_genres_key", "not_object", "not_records", "invalid_json"}}

Response(outcome, status, text, body) ==
    [outcome |-> outcome, status |-> status, text |-> text, body |-> body]
NoResponse == Response("none", 0, "", Body("none", <<>>))
GenreResponses ==
    {Response("ok", 200, "", b) : b \in GenreBodies}
    \cup {Response("ok", c, t, Body("none", <<>>)) : c \in StatusCodes \ {200}, t \in ErrorTexts}
    \cup {Response("transport", 0, "Connection refused", Body("none", <<>>))}

(***************************************************************************)
(* TMDBGenre and _exclude_incomplete_genres.                               *)
(***************************************************************************)
\* pydantic's validation of an `int` field: an integer, or a numeric string
\* that it coerces; a missing key, null or other text is a ValidationError
IntFieldOk(v) == v.t \in {"int", "numstr"}
IntFieldValue(v) == v.n

\* pydantic's validation of a `str` field
StrFieldOk(v) == v.t = "str"

\* a validator that requires the id alone
TMDBGenreOk_NameOptional(genre) == IntFieldOk(genre.id)

\* TMDBGenre(**genre) succeeds: both fields are required
TMDBGenreOk(genre) == IntFieldOk(genre.id) /\ StrFieldOk(genre.name)
TMDBGenre(genre) == [id |-> IntFieldValue(genre.id), name |-> genre.name.s]

RECURSIVE _exclude_incomplete_genres(_)
_exclude_incomplete_genres(genres_data) ==
    IF genres_data = <<>> THEN <<>>
    ELSE LET rest == _exclude_incomplete_genres(Tail(genres_data))
             genre == Head(genres_data)
         IN IF TMDBGenreOk(genre) THEN <<TMDBGenre(genre)>> \o rest ELSE rest

(***************************************************************************)
(* _combine_genre_lists: a dict comprehension over the film list, then a   *)
(* loop over the TV list.                                                  *)
(***************************************************************************)
GenreEntry(id, has_movies, has_tv_shows) ==
    [id |-> id, has_movies |-> has_movies, has_tv_shows |-> has_tv_shows]

\* d[key] = value
DictSet(d, key, value) == [k \in DOMAIN d \cup {key} |-> IF k = key THEN value ELSE d[k]]

RECURSIVE MovieGenresMap(_, _)
MovieGenresMap(genres_map, movie_genres) ==
    IF movie_genres = <<>> THEN genres_map
    ELSE LET genre == Head(movie_genres)
         IN MovieGenresMap(DictSet(genres_map, genre.name, GenreEntry(genre.id, TRUE, FALSE)),
                           Tail(movie_genres))

\* a loop body that inserts new names but leaves an existing entry's flag
TvGenreStep_NoFlag(genres_map, genre) ==
    IF genre.name \in DOMAIN genres_map
    THEN genres_map
    ELSE DictSet(genres_map, genre.name, GenreEntry(genre.id, FALSE, TRUE))

\* a loop body that rebuilds an existing entry from the TV record
TvGenreStep_TvIdWins(genres_map, genre) ==
    DictSet(genres_map, genre.name,
            GenreEntry(genre.id, genre.name \in DOMAIN genres_map, TRUE))

\* one iteration of `for genre in tv_genres`
TvGenreStep(genres_map, genre) ==
    IF genre.name \in DOMAIN genres_map
    THEN [genres_map EXCEPT ![genre.name].has_tv_shows = TRUE]
    ELSE DictSet(genres_map, genre.name, GenreEntry(genre.id, FALSE, TRUE))

RECURSIVE TvGenresLoop(_, _)
TvGenresLoop(genres_map, tv_genres) ==
    IF tv_genres = <<>> THEN genres_map
    ELSE TvGenresLoop(TvGenreStep(genres_map, Head(tv_genres)), Tail(tv_genres))

_combine_genre_lists(movie_genres, tv_genres) ==
    TvGenresLoop(MovieGenresMap(EmptyMap, movie_genres), tv_genres)

(***************************************************************************)
(* fetch_genres.                                                           *)
(***************************************************************************)
ConfigurationError == Exc("ValueError", "TMDB_API_KEY not configured", 0, "")
ProviderError(response) == Exc("RuntimeError", "TMDB API error", response.status, response.text)
ConnectivityError(response) == Exc("ConnectionError", "Failed to connect to TMDB API", 0, response.text)
MalformedResponseError == Exc("RuntimeError", "TMDB API returned invalid JSON", 0, "")

\* `api_key is None`: an empty value passes
KeyMissing_NoneOnly(api_key) == api_key = "unset"

\* `not api_key`: the variable is unset or empty
KeyMissing(api_key) == api_key \in {"unset", ""}

\* response.json().get("genres", []): the default for a missing key
GenresOf(body) == IF body.kind = "genres" THEN body.genres ELSE <<>>

\* the statements after the `with` block: parse both bodies (film first),
\* validate both lists, merge; only JSONDecodeError is handled here.
\* ParseFailure is the exception these statements end with, NoExc if none
ParseFailure(movie_response, tv_response) ==
    LET mb == movie_response.body
        tb == tv_response.body
    IN  IF mb.kind = "invalid_json" THEN MalformedResponseError
        ELSE IF mb.kind = "not_object" THEN Exc("AttributeError", "no attribute 'get'", 0, "")
        ELSE IF tb.kind = "invalid_json" THEN MalformedResponseError
        ELSE IF tb.kind = "not_object" THEN Exc("AttributeError", "no attribute 'get'", 0, "")
        ELSE IF mb.kind = "not_records" \/ tb.kind = "not_records"
             THEN Exc("TypeError", "argument after ** must be a mapping", 0, "")
        ELSE NoExc

ParseAndCombine(movie_response, tv_response) ==
    IF ParseFailure(movie_response, tv_response) # NoExc
    THEN Raise(ParseFailure(movie_response, tv_response))
    ELSE Return(_combine_genre_lists(_exclude_incomplete_genres(GenresOf(movie_response.body)),
                                     _exclude_incomplete_genres(GenresOf(tv_response.body))))

\* handlers that report a transport failure as a provider error
AfterGet_TransportAsProvider(response, next_pc) ==
    IF response.outcome = "transport" \/ ~is_success(response.status)
    THEN [pc |-> "done", ret |-> Raise(ProviderError(response))]
    ELSE [pc |-> next_pc, ret |-> NoReturn]

\* handlers that swallow the failure and go on to the next statement
AfterGet_GoesOn(response, next_pc) == [pc |-> next_pc, ret |-> NoReturn]

\* a fetch that parses each body as soon as its request has succeeded
AfterGet_ParsesAtOnce(response, next_pc) ==
    IF response.outcome = "transport" THEN [pc |-> "done", ret |-> Raise(ConnectivityError(response))]
    ELSE IF ~is_success(response.status) THEN [pc |-> "done", ret |-> Raise(ProviderError(response))]
    ELSE IF response.body.kind = "invalid_json"
    THEN [pc |-> "done", ret |-> Raise(MalformedResponseError)]
    ELSE [pc |-> next_pc, ret |-> NoReturn]

\* client.get(...) followed by raise_for_status(), under the handlers of
\* fetch_genres: where the invocation goes next, given the response
AfterGet(response, next_pc) ==
    IF response.outcome = "transport" THEN [pc |-> "done", ret |-> Raise(ConnectivityError(response))]
    ELSE IF ~is_success(response.status) THEN [pc |-> "done", ret |-> Raise(ProviderError(response))]
    ELSE [pc |-> next_pc, ret |-> NoReturn]

FetchLocals(movie_response, tv_response, movie_genres, tv_genres) ==
    [movie_response |-> movie_response, tv_response |-> tv_response,
     movie_genres |-> movie_genres, tv_genres |-> tv_genres]

CallFetchGenres ==
    /\ op = "idle"
    /\ \E key \in ApiKeys : env' = key
    /\ op' = "fetch_genres"
    /\ pc' = "check_key"
    /\ args' = EmptyMap
    /\ loc' = FetchLocals(NoResponse, NoResponse, <<>>, <<>>)
    /\ net' = <<>>
    /\ ret' = NoReturn

FetchCheckKey ==
    /\ op = "fetch_genres" /\ pc = "check_key"
    /\ IF KeyMissing(env)
       THEN pc' = "done" /\ ret' = Raise(ConfigurationError)
       ELSE pc' = "get_movie" /\ ret' = ret
    /\ UNCHANGED <<op, env, args, loc, net>>

FetchGetMovie ==
    /\ op = "fetch_genres" /\ pc = "get_movie"
    /\ \E response \in GenreResponses :
         /\ net' = Append(net, "/genre/movie/list")
         /\ loc' = [loc EXCEPT !.movie_response = response]
         /\ pc' = AfterGet(response, "get_tv").pc
         /\ ret' = AfterGet(response, "get_tv").ret
    /\ UNCHANGED <<op, env, args>>

FetchGetTv ==
    /\ op = "fetch_genres" /\ pc = "get_tv"
    /\ \E response \in GenreResponses :
         /\ net' = Append(net, "/genre/tv/list")
         /\ loc' = [loc EXCEPT !.tv_response = response]
         /\ pc' = AfterGet(response, "parse").pc
         /\ ret' = AfterGet(response, "parse").ret
    /\ UNCHANGED <<op, env, args>>

FetchParse ==
    /\ op = "fetch_genres" /\ pc = "parse"
    /\ ret' = ParseAndCombine(loc.movie_response, loc.tv_response)
    /\ loc' = IF ParseFailure(loc.movie_response, loc.tv_response) # NoExc THEN loc
              ELSE [loc EXCEPT
                      !.movie_genres = _exclude_incomplete_genres(GenresOf(loc.movie_response.body)),
                      !.tv_genres = _exclude_incomplete_genres(GenresOf(loc.tv_response.body))]
    /\ pc' = "done"
    /\ UNCHANGED <<op, env, args, net>>

(***************************************************************************)
(* Discovery parameters.  An optional integer is JNull (None) or JInt(n);  *)
(* a language is None, a string (its characters) or a value that is no     *)
(* string.                                                                 *)
(***************************************************************************)
LNone == [t |-> "none", chars |-> <<>>]
LStr(chars) == [t |-> "str", chars |-> chars]
LNotStr == [t |-> "int", chars |-> <<>>]

\* the characters str.isalpha() accepts, among those the model uses
Alphabetic == {"e", "n", "g"}
isalpha(chars) == chars # <<>> /\ \A i \in 1..Len(chars) : chars[i] \in Alphabetic

MediaTypes == {"film", "tv", "book"}
Years == {JNull, JInt(1899), JInt(1900)}
Pages == {0, 1}
MaxResultsValues == {0, 1, 2, 100, 101}
Languages == {LNone, LStr(<<"e", "n">>), LStr(<<"e", "n", "g">>), LStr(<<"e", "1">>), LNotStr}
valid_sort_options ==
    {"popularity.desc", "popularity.asc", "vote_average.desc", "vote_average.asc",
     "date.desc", "date.asc"}
SortOptions == valid_sort_options \cup {"release_date.desc"}
GenreIds == {JNull, JInt(18)}

ValidationError(msg) == Exc("ValueError", msg, 0, "")

\* a validator that admits max_results up to 101
_validate_discovery_params_internal_OffByOne(media_type, year, page, max_results, language, sort_by) ==
    IF media_type \notin {"film", "tv"}
    THEN ValidationError("media_type must be 'film' or 'tv'")
    ELSE IF year # JNull /\ year.n < 1900
    THEN ValidationError("year must be 1900 or later")
    ELSE IF page < 1
    THEN ValidationError("page must be 1 or greater")
    ELSE IF max_results < 1 \/ max_results > 101
    THEN ValidationError("max_results must be between 1 and 100")
    ELSE IF language # LNone /\ (language.t # "str" \/ Len(language.chars) # 2 \/ ~isalpha(language.chars))
    THEN ValidationError("language must be a 2-character ISO 639-1 code")
    ELSE IF sort_by \notin valid_sort_options
    THEN ValidationError("sort_by must be one of")
    ELSE NoExc

\* a validator without the check of the year
_validate_discovery_params_internal_NoYear(media_type, year, page, max_results, language, sort_by) ==
    IF media_type \notin {"film", "tv"}
    THEN ValidationError("media_type must be 'film' or 'tv'")
    ELSE IF page < 1
    THEN ValidationError("page must be 1 or greater")
    ELSE IF max_results < 1 \/ max_results > 100
    THEN ValidationError("max_results must be between 1 and 100")
    ELSE IF language # LNone /\ (language.t # "str" \/ Len(language.chars) # 2 \/ ~isalpha(language.chars))
    THEN ValidationError("language must be a 2-character ISO 639-1 code")
    ELSE IF sort_by \notin valid_sort_options
    THEN ValidationError("sort_by must be one of")
    ELSE NoExc

\* a validator that looks at media_type after the other parameters
_validate_discovery_params_internal_MediaTypeLast(media_type, year, page, max_results, language, sort_by) ==
    IF year # JNull /\ year.n < 1900
    THEN ValidationError("year must be 1900 or later")
    ELSE IF page < 1
    THEN ValidationError("page must be 1 or greater")
    ELSE IF max_results < 1 \/ max_results > 100
    THEN ValidationError("max_results must be between 1 and 100")
    ELSE IF language # LNone /\ (language.t # "str" \/ Len(language.chars) # 2 \/ ~isalpha(language.chars))
    THEN ValidationError("language must be a 2-character ISO 639-1 code")
    ELSE IF sort_by \notin valid_sort_options
    THEN ValidationError("sort_by must be one of")
    ELSE IF media_type \notin {"film", "tv"}
    THEN ValidationError("media_type must be 'film' or 'tv'")
    ELSE NoExc

\* the exception the validation raises, NoExc when it returns
_validate_discovery_params_internal(media_type, year, page, max_results, language, sort_by) ==
    IF media_type \notin {"film", "tv"}
    THEN ValidationError("media_type must be 'film' or 'tv'")
    ELSE IF year # JNull /\ year.n < 1900
    THEN ValidationError("year must be 1900 or later")
    ELSE IF page < 1
    THEN ValidationError("page must be 1 or greater")
    ELSE IF max_results < 1 \/ max_results > 100
    THEN ValidationError("max_results must be between 1 and 100")
    ELSE IF language # LNone /\ (language.t # "str" \/ Len(language.chars) # 2 \/ ~isalpha(language.chars))
    THEN ValidationError("language must be a 2-character ISO 639-1 code")
    ELSE IF sort_by \notin valid_sort_options
    THEN ValidationError("sort_by must be one of")
    ELSE NoExc

(***************************************************************************)
(* Catalog records.  A raw record's title and date stand for the keys of   *)
(* its media type (title/release_date for a film, name/first_air_date for  *)
(* a TV show); genre_ids is missing or a list.                             *)
(***************************************************************************)
GAbsent == [t |-> "absent", items |-> <<>>]
GList(items) == [t |-> "list", items |-> items]
RawItem(id, title, date, vote_average, overview, genre_ids) ==
    [id |-> id, title |-> title, date |-> date, vote_average |-> vote_average,
     overview |-> overview, genre_ids |-> genre_ids]

CompleteItem(n) ==
    RawItem(JInt(n), JStr("Complete Film"), JStr("2024-01-01"), JInt(7), JStr("Full details"),
            GList(<<28>>))
OnlyId(id) == RawItem(id, Absent, Absent, Absent, Absent, GAbsent)
OnlyTitle == RawItem(Absent, JStr("No ID"), Absent, Absent, Absent, GAbsent)

\* an optional field of a validated record: None when the key is missing
Optional(v) == IF v.t = "absent" THEN JNull ELSE v

\* model_class(**item) succeeds: the id alone is required
MediaModelOk(model_class, item) == IntFieldOk(item.id)

\* the validated TMDBFilm or TMDBTVShow
MediaModel(model_class, item) ==
    IF model_class = "TMDBFilm"
    THEN [id |-> IntFieldValue(item.id), title |-> Optional(item.title),
          release_date |-> Optional(item.date), vote_average |-> Optional(item.vote_average),
          overview |-> Optional(item.overview),
          genre_ids |-> IF item.genre_ids.t = "absent" THEN <<>> ELSE item.genre_ids.items]
    ELSE [id |-> IntFieldValue(item.id), name |-> Optional(item.title),
          first_air_date |-> Optional(item.date), vote_average |-> Optional(item.vote_average),
          overview |-> Optional(item.overview),
          genre_ids |-> IF item.genre_ids.t = "absent" THEN <<>> ELSE item.genre_ids.items]

\* a loop that stops at the first record the model class rejects
RECURSIVE _filter_incomplete_media_StopsAtInvalid(_, _)
_filter_incomplete_media_StopsAtInvalid(media_data, model_class) ==
    IF media_data = <<>> THEN <<>>
    ELSE LET item == Head(media_data)
         IN IF MediaModelOk(model_class, item)
            THEN <<MediaModel(model_class, item)>>
                   \o _filter_incomplete_media_StopsAtInvalid(Tail(media_data), model_class)
            ELSE <<>>

RECURSIVE _filter_incomplete_media(_, _)
_filter_incomplete_media(media_data, model_class) ==
    IF media_data = <<>> THEN <<>>
    ELSE LET rest == _filter_incomplete_media(Tail(media_data), model_class)
             item == Head(media_data)
         IN IF MediaModelOk(model_class, item)
            THEN <<MediaModel(model_class, item)>> \o rest
            ELSE rest

\* dict.get(key, default) on a raw JSON object
Get(v, default) == IF v.t = "absent" THEN default ELSE v

\* hasattr(item, name)
hasattr(item, name) == name \in DOMAIN item

\* the result_dict built for one item
ResultDict(item) ==
    IF hasattr(item, "title")
    THEN [id |-> item.id, title |-> item.title, release_date |-> item.release_date,
          vote_average |-> item.vote_average, overview |-> item.overview,
          genre_ids |-> item.genre_ids]
    ELSE [id |-> item.id, name |-> item.name, first_air_date |-> item.first_air_date,
          vote_average |-> item.vote_average, overview |-> item.overview,
          genre_ids |-> item.genre_ids]

\* a formatter that counts the items it was given
_format_discovery_response_CountsItems(media_items, raw_data, page, media_config) ==
    [page |-> page,
     total_results |-> JInt(Len(media_items)),
     total_pages |-> Get(raw_data.total_pages, JInt(0)),
     results |-> [i \in 1..Len(media_items) |-> ResultDict(media_items[i])]]

_format_discovery_response(media_items, raw_data, page, media_config) ==
    [page |-> page,
     total_results |-> Get(raw_data.total_results, JInt(0)),
     total_pages |-> Get(raw_data.total_pages, JInt(0)),
     results |-> [i \in 1..Len(media_items) |-> ResultDict(media_items[i])]]

(***************************************************************************)
(* The validators and the formatter called on their own, as the tests of   *)
(* the tools call them: on raw records whose id or name may be missing,    *)
(* null, a number, a numeric string or other text.                         *)
(***************************************************************************)
RawGenreRecords ==
    { [id |-> JInt(28), name |-> JStr("Action")],
      [id |-> JInt(18), name |-> Absent],
      [id |-> Absent, name |-> JStr("Comedy")],
      [id |-> Absent, name |-> Absent],
      [id |-> JNull, name |-> JStr("Drama")],
      [id |-> JNumStr(18), name |-> JStr("Drama")],
      [id |-> JStr("abc"), name |-> JStr("Drama")],
      [id |-> JInt(18), name |-> JNull] }

RawItems ==
    { CompleteItem(1),
      RawItem(JInt(3), Absent, Absent, JInt(6), Absent, GAbsent),
      OnlyId(JInt(4)),
      OnlyTitle,
      OnlyId(Absent),
      OnlyId(JNull),
      OnlyId(JNumStr(5)),
      OnlyId(JStr("abc")) }

Envelope(kind, results, total_results, total_pages) ==
    [kind |-> kind, results |-> results, total_results |-> total_results,
     total_pages |-> total_pages]

\* the pagination counts of a provider envelope: both, neither, one
Totals == {<<JInt(4), JInt(1)>>, <<Absent, Absent>>, <<JInt(4), Absent>>}

ModelClasses == {"TMDBFilm", "TMDBTVShow"}

CallExcludeIncompleteGenres ==
    /\ op = "idle"
    /\ \E genres_data \in SeqsUpTo(RawGenreRecords, MaxGenres) :
         args' = [genres_data |-> genres_data]
    /\ op' = "_exclude_incomplete_genres"
    /\ pc' = "validate"
    /\ loc' = EmptyMap
    /\ net' = <<>>
    /\ ret' = NoReturn
    /\ env' = "unset"

ExcludeIncompleteGenres ==
    /\ op = "_exclude_incomplete_genres" /\ pc = "validate"
    /\ ret' = Return(_exclude_incomplete_genres(args.genres_data))
    /\ pc' = "done"
    /\ UNCHANGED <<op, env, args, loc, net>>

CallFilterAndFormat ==
    /\ op = "idle"
    /\ \E media_data \in SeqsUpTo(RawItems, MaxItems), totals \in Totals,
          model_class \in ModelClasses :
         args' = [raw_data |-> Envelope("results", media_data, totals[1], totals[2]),
                  model_class |-> model_class, page |-> 1]
    /\ op' = "_format_discovery_response"
    /\ pc' = "filter"
    /\ loc' = [media_items |-> <<>>]
    /\ net' = <<>>
    /\ ret' = NoReturn
    /\ env' = "unset"

FilterIncompleteMedia ==
    /\ op = "_format_discovery_response" /\ pc = "filter"
    /\ loc' = [media_items |-> _filter_incomplete_media(args.raw_data.results, args.model_class)]
    /\ pc' = "format"
    /\ UNCHANGED <<op, env, args, net, ret>>

FormatDiscoveryResponse ==
    /\ op = "_format_discovery_response" /\ pc = "format"
    /\ ret' = Return(_format_discovery_response(loc.media_items, args.raw_data, args.page,
                                                args.model_class))
    /\ pc' = "done"
    /\ UNCHANGED <<op, env, args, loc, net>>

(***************************************************************************)
(* TMDBService.discover, as section 4.3 of the specification and the tests *)
(* of discover_films_from_tmdb describe it: it requires the API key,       *)
(* issues one request to the discovery endpoint of the media type,         *)
(* classifies failures as fetch_genres does, validates the raw items,      *)
(* truncates them to max_results and wraps them as media of a MediaList.   *)
(***************************************************************************)
ServiceItems == {CompleteItem(1), OnlyId(JInt(4)), OnlyTitle}
ServiceTotals == {<<JInt(4), JInt(1)>>, <<Absent, Absent>>}
NoEnvelope == Envelope("none", <<>>, Absent, Absent)
DiscoverResponses ==
    {Response("ok", 200, "", Envelope("results", r, t[1], t[2])) :
        r \in SeqsUpTo(ServiceItems, MaxItems), t \in ServiceTotals}
    \cup {Response("ok", 200, "", Envelope("invalid_json", <<>>, Absent, Absent))}
    \cup {Response("ok", c, t, NoEnvelope) : c \in StatusCodes \ {200}, t \in ErrorTexts}
    \cup {Response("transport", 0, "Connection refused", NoEnvelope)}

Endpoint(media_type) == IF media_type = "film" THEN "/discover/movie" ELSE "/discover/tv"
ModelClassOf(media_type) == IF media_type = "film" THEN "TMDBFilm" ELSE "TMDBTVShow"

\* str(n) and int(s) on an identifier; date.fromisoformat and isoformat
str(n) == JNumStr(n)
int(v) == v.n
fromisoformat(v) == IF v = JNull THEN JNull ELSE [t |-> "date", n |-> 0, s |-> v.s]
isoformat(d) == JStr(d.s)

Min(a, b) == IF a < b THEN a ELSE b

\* the media-type-agnostic Media built from a validated TMDBFilm or TMDBTVShow
Media(media_type, item) ==
    [id |-> str(item.id), media_type |-> media_type,
     title |-> IF hasattr(item, "title") THEN item.title ELSE item.name,
     date |-> fromisoformat(IF hasattr(item, "title") THEN item.release_date
                            ELSE item.first_air_date),
     rating |-> item.vote_average, description |-> item.overview,
     genre_ids |-> item.genre_ids]

MediaList(results, total_results, page, total_pages) ==
    [results |-> results, total_results |-> total_results, page |-> page,
     total_pages |-> total_pages]
NoMediaList == MediaList(<<>>, 0, 0, 0)

\* the MediaList of a parsed envelope
ServiceMediaList(media_type, page, max_results, envelope) ==
    LET valid == _filter_incomplete_media(envelope.results, ModelClassOf(media_type))
        kept == SubSeq(valid, 1, Min(max_results, Len(valid)))
    IN  MediaList([i \in 1..Len(kept) |-> Media(media_type, kept[i])],
                  Get(envelope.total_results, JInt(0)).n, page,
                  Get(envelope.total_pages, JInt(0)).n)

\* where the invocation goes once the service has its response
AfterDiscover(response) ==
    IF response.outcome = "transport" THEN Raise(ConnectivityError(response))
    ELSE IF ~is_success(response.status) THEN Raise(ProviderError(response))
    ELSE IF response.body.kind = "invalid_json" THEN Raise(MalformedResponseError)
    ELSE NoReturn

\* service.discover(...), called by discover_media and by the wrappers
\* discover_films_from_tmdb and discover_tv_shows_from_tmdb
ServiceDiscover ==
    /\ op \in {"discover_media", "discover_films_from_tmdb", "discover_tv_shows_from_tmdb"}
    /\ pc = "call_service"
    /\ IF KeyMissing(env)
       THEN /\ ret' = Raise(ConfigurationError)
            /\ pc' = "done"
            /\ UNCHANGED <<loc, net>>
       ELSE \E response \in DiscoverResponses :
            /\ net' = Append(net, Endpoint(args.media_type))
            /\ ret' = AfterDiscover(response)
            /\ pc' = IF AfterDiscover(response) = NoReturn THEN "format" ELSE "done"
            /\ loc' = [raw_data |-> response.body,
                       media_list |->
                          IF AfterDiscover(response) = NoReturn
                          THEN ServiceMediaList(args.media_type, args.page, args.max_results,
                                                response.body)
                          ELSE NoMediaList]
    /\ UNCHANGED <<op, env, args>>

(***************************************************************************)
(* discover_media and its specializations discover_films and               *)
(* discover_tv_shows.                                                      *)
(***************************************************************************)
DiscoverArgs(media_type, genre_id, year, language, sort_by, page, max_results) ==
    [media_type |-> media_type, genre_id |-> genre_id, year |-> year, language |-> language,
     sort_by |-> sort_by, page |-> page, max_results |-> max_results]

NoDiscoverLocals == [raw_data |-> NoEnvelope, media_list |-> NoMediaList]

\* the caller's arguments, media_type apart
CallDiscover(media_type) ==
    /\ op = "idle"
    /\ \E genre_id \in GenreIds, year \in Years, language \in Languages,
          sort_by \in SortOptions, page \in Pages, max_results \in MaxResultsValues :
         args' = DiscoverArgs(media_type, genre_id, year, language, sort_by, page, max_results)
    /\ \E key \in ApiKeys : env' = key
    /\ op' = "discover_media"
    /\ pc' = "validate"
    /\ loc' = NoDiscoverLocals
    /\ net' = <<>>
    /\ ret' = NoReturn

CallDiscoverMedia == \E media_type \in MediaTypes : CallDiscover(media_type)
CallDiscoverFilms == CallDiscover("film")
CallDiscoverTvShows == CallDiscover("tv")

DiscoverValidate ==
    /\ op = "discover_media" /\ pc = "validate"
    /\ LET e == _validate_discovery_params_internal(args.media_type, args.year, args.page,
                                                    args.max_results, args.language, args.sort_by)
       IN  IF e # NoExc
           THEN pc' = "done" /\ ret' = Raise(e)
           ELSE pc' = "call_service" /\ ret' = ret
    /\ UNCHANGED <<op, env, args, loc, net>>

\* the dict built for one media
MediaDict(media) ==
    [id |-> media.id, media_type |-> media.media_type, title |-> media.title,
     date |-> IF media.date # JNull THEN isoformat(media.date) ELSE JNull,
     rating |-> media.rating, description |-> media.description,
     genre_ids |-> media.genre_ids]

_format_media_list(media_list, provider_name) ==
    [results |-> [i \in 1..Len(media_list.results) |-> MediaDict(media_list.results[i])],
     total_results |-> media_list.total_results, page |-> media_list.page,
     total_pages |-> media_list.total_pages, provider |-> provider_name]

DiscoverFormat ==
    /\ op = "discover_media" /\ pc = "format"
    /\ ret' = Return(_format_media_list(loc.media_list, "TMDB"))
    /\ pc' = "done"
    /\ UNCHANGED <<op, env, args, loc, net>>

(***************************************************************************)
(* discover_films_from_tmdb and discover_tv_shows_from_tmdb: the service   *)
(* is called with the arguments as given, then the TMDB-specific format.   *)
(***************************************************************************)
\* the dict built for one media of the given type
LegacyDict(media_type, media) ==
    IF media_type = "film"
    THEN [id |-> int(media.id), title |-> media.title,
          release_date |-> IF media.date # JNull THEN isoformat(media.date) ELSE JNull,
          vote_average |-> media.rating, overview |-> media.description,
          genre_ids |-> media.genre_ids]
    ELSE [id |-> int(media.id), name |-> media.title,
          first_air_date |-> IF media.date # JNull THEN isoformat(media.date) ELSE JNull,
          vote_average |-> media.rating, overview |-> media.description,
          genre_ids |-> media.genre_ids]

\* a comprehension that keeps only the media that have a title
LegacyResults_TitledOnly(media_type, media_list) ==
    LET titled == SelectSeq(media_list.results, LAMBDA media : media.title # JNull)
    IN  [i \in 1..Len(titled) |-> LegacyDict(media_type, titled[i])]

\* the "results" comprehension
LegacyResults(media_type, media_list) ==
    [i \in 1..Len(media_list.results) |-> LegacyDict(media_type, media_list.results[i])]

LegacyFormat(media_type, media_list) ==
    [results |-> LegacyResults(media_type, media_list),
     total_results |-> media_list.total_results, page |-> media_list.page,
     total_pages |-> media_list.total_pages]

CallDiscoverFromTmdb(media_type) ==
    /\ op = "idle"
    /\ \E max_results \in 1..(MaxItems + 1) :
         args' = DiscoverArgs(media_type, JNull, JNull, LNone, "popularity.desc", 1, max_results)
    /\ \E key \in ApiKeys : env' = key
    /\ op' = IF media_type = "film" THEN "discover_films_from_tmdb"
             ELSE "discover_tv_shows_from_tmdb"
    /\ pc' = "call_service"
    /\ loc' = NoDiscoverLocals
    /\ net' = <<>>
    /\ ret' = NoReturn

CallDiscoverFilmsFromTmdb == CallDiscoverFromTmdb("film")
CallDiscoverTvShowsFromTmdb == CallDiscoverFromTmdb("tv")

DiscoverFromTmdbFormat ==
    /\ op \in {"discover_films_from_tmdb", "discover_tv_shows_from_tmdb"}
    /\ pc = "format"
    /\ ret' = Return(LegacyFormat(args.media_type, loc.media_list))
    /\ pc' = "done"
    /\ UNCHANGED <<op, env, args, loc, net>>

(***************************************************************************)
(* Text and the sampling context.  A Python string is a sequence of        *)
(* pieces, each a run of whitespace (a member of Whitespace) or a run of   *)
(* other characters; the string is their concatenation.  A call on the     *)
(* context (ctx.sample, ctx.warning) is recorded in `net`.                 *)
(***************************************************************************)
\* the longest set of genre names a fetch gives the mood categorizer
MaxCatalog == 4

Whitespace == {" ", "\n"}

Obj(t, text, n) == [t |-> t, text |-> text, n |-> n]
PyNone == Obj("NoneType", <<>>, 0)
PyStr(text) == Obj("str", text, 0)
PyInt(n) == Obj("int", <<>>, n)

\* the characters of a string, as one TLA+ string
RECURSIVE Joined(_)
Joined(text) == IF text = <<>> THEN "" ELSE Head(text) \o Joined(Tail(text))

\* len(text)
RECURSIVE len(_)
len(text) == IF text = <<>> THEN 0 ELSE Len(Head(text)) + len(Tail(text))

\* a trimming that leaves the whitespace in place
strip_Nothing(text) == text

\* text.strip(): without its leading and trailing whitespace
RECURSIVE lstrip(_)
lstrip(text) ==
    IF text # <<>> /\ Head(text) \in Whitespace THEN lstrip(Tail(text)) ELSE text
RECURSIVE rstrip(_)
rstrip(text) ==
    IF text # <<>> /\ text[Len(text)] \in Whitespace
    THEN rstrip(SubSeq(text, 1, Len(text) - 1))
    ELSE text
strip(text) == rstrip(lstrip(text))

\* a call on the context, with the text it carries
CtxCall(call, text) == [call |-> call, text |-> text]
SampleCall == CtxCall("ctx.sample", "")
WarningCall(text) == CtxCall("ctx.warning", text)

\* what `await ctx.sample(...)` ends with: a reply, whose text is a string
\* or None, or an exception of some type
SampleReply(outcome, text, exc) == [outcome |-> outcome, text |-> text, exc |-> exc]
NoReply == SampleReply("none", PyNone, NoExc)
SampleErrors ==
    { Exc("ValueError", "Sampling not supported", 0, ""),
      Exc("RuntimeError", "LLM unavailable", 0, "") }

\* type(e).__name__ and str(e) as the warnings interpolate them
ErrorLabel(e) == e.type \o ": " \o e.msg

\* the outcomes of fetch_genres() as its callers see them: a map of genre
\* names, or one of its errors
CatalogNames == {"Action", "Comedy", "Documentary", "Horror", "Western", "horror"}
CatalogIds ==
    ("Action" :> 28) @@ ("Comedy" :> 35) @@ ("Documentary" :> 99) @@ ("Horror" :> 27)
    @@ ("Western" :> 37) @@ ("horror" :> 10027)
FetchedGenres ==
    { [name \in S |-> GenreEntry(CatalogIds[name], TRUE, FALSE)] :
        S \in {T \in SUBSET CatalogNames : Cardinality(T) <= MaxCatalog} }
FetchErrors ==
    { ConfigurationError,
      ProviderError(Response("ok", 401, "Invalid API key", Body("none", <<>>))),
      ConnectivityError(Response("transport", 0, "Connection refused", Body("none", <<>>))),
      MalformedResponseError }
FetchOutcomes == {Return(g) : g \in FetchedGenres} \cup {Raise(e) : e \in FetchErrors}

\* Python's order of strings (by code point), on the names of the model
CodepointOrder == <<"Action", "Comedy", "Documentary", "Horror", "Western", "horror">>
Rank(name) == CHOOSE i \in 1..Len(CodepointOrder) : CodepointOrder[i] = name

\* the names in the order the set happens to be iterated in
RECURSIVE sorted_Descending(_)
sorted_Descending(names) ==
    IF names = {} THEN <<>>
    ELSE LET last == CHOOSE x \in names : \A y \in names : Rank(y) <= Rank(x)
         IN <<last>> \o sorted_Descending(names \ {last})

\* an ordering that ignores the letter case: sorted(names, key=str.lower)
CaseFoldedOrder == <<"Action", "Comedy", "Documentary", "Horror", "horror", "Western">>
RECURSIVE sorted_CaseInsensitive(_)
sorted_CaseInsensitive(names) ==
    IF names = {} THEN <<>>
    ELSE LET at(name) == CHOOSE i \in 1..Len(CaseFoldedOrder) : CaseFoldedOrder[i] = name
             first == CHOOSE x \in names : \A y \in names : at(x) <= at(y)
         IN <<first>> \o sorted_CaseInsensitive(names \ {first})

\* sorted(genres.keys())
RECURSIVE sorted(_)
sorted(names) ==
    IF names = {} THEN <<>>
    ELSE LET first == CHOOSE x \in names : \A y \in names : Rank(x) <= Rank(y)
         IN <<first>> \o sorted(names \ {first})

(***************************************************************************)
(* The mood categorizer: _categorize_single_genre, categorize_all_genres.  *)
(***************************************************************************)
\* [m.value for m in Mood]
Mood == {"Dark", "Light", "Serious", "Fun", "Other"}

GENRE_MOOD_MAP ==
    ("Horror" :> "Dark") @@ ("Thriller" :> "Dark") @@ ("Crime" :> "Dark")
    @@ ("Mystery" :> "Dark")
    @@ ("Comedy" :> "Light") @@ ("Family" :> "Light") @@ ("Kids" :> "Light")
    @@ ("Animation" :> "Light") @@ ("Romance" :> "Light")
    @@ ("Documentary" :> "Serious") @@ ("History" :> "Serious") @@ ("War" :> "Serious")
    @@ ("Drama" :> "Serious") @@ ("News" :> "Serious") @@ ("War & Politics" :> "Serious")
    @@ ("Action" :> "Fun") @@ ("Adventure" :> "Fun") @@ ("Action & Adventure" :> "Fun")
    @@ ("Fantasy" :> "Fun") @@ ("Science Fiction" :> "Fun") @@ ("Sci-Fi & Fantasy" :> "Fun")
    @@ ("Music" :> "Fun")

\* the buckets before any genre is placed
create_empty_categorized_dict == [mood \in Mood |-> <<>>]

\* the replies to the categorization prompt
MoodTexts ==
    { <<"Dark">>, <<" ", "Fun", "\n">>, <<"Other">>, <<"Excited">>, <<"dark">>,
      <<"Dark", " ", "Fun">>, <<>> }
MoodReplies ==
    {SampleReply("ok", PyStr(text), NoExc) : text \in MoodTexts}
    \cup {SampleReply("ok", PyNone, NoExc)}
    \cup {SampleReply("raise", PyNone, e) : e \in SampleErrors}

\* a lookup that asks the model about every genre
NeedsSampling_Always(genre_name) == TRUE

\* `genre_name in GENRE_MOOD_MAP` is false
NeedsSampling(genre_name) == genre_name \notin DOMAIN GENRE_MOOD_MAP

\* the exception the try block of _categorize_single_genre ends with, NoExc
\* if none: the one ctx.sample raised, or that of `.strip()` on a None text
CategorizationFailure(reply) ==
    IF reply.outcome = "raise" THEN reply.exc
    ELSE IF reply.text.t # "str"
         THEN Exc("AttributeError", "'NoneType' object has no attribute 'strip'", 0, "")
    ELSE NoExc

\* a reading of the reply that takes the stripped text as it is
SampledMood_Unvalidated(reply) ==
    IF CategorizationFailure(reply) # NoExc THEN "Other" ELSE Joined(strip(reply.text.text))

\* the mood _categorize_single_genre returns after sampling: the stripped
\* reply when it is a Mood value, Mood.OTHER otherwise
SampledMood(reply) ==
    IF CategorizationFailure(reply) # NoExc THEN "Other"
    ELSE IF Joined(strip(reply.text.text)) \in Mood THEN Joined(strip(reply.text.text))
    ELSE "Other"

\* the sampling call of _categorize_single_genre: its message names the genre
CategorizationCall(genre_name) ==
    CtxCall("ctx.sample", "Categorize the genre '" \o genre_name \o "'")

CategorizationWarning(genre_name, e) ==
    WarningCall("LLM categorization failed for '" \o genre_name \o "' (" \o ErrorLabel(e) \o ")")

\* a handler that also warns about a reply that is no bucket value
AfterSampleCalls_WarnsOnMismatch(calls, genre_name, reply) ==
    IF CategorizationFailure(reply) # NoExc
    THEN Append(calls, CategorizationWarning(genre_name, CategorizationFailure(reply)))
    ELSE IF Joined(strip(reply.text.text)) \notin Mood
    THEN Append(calls, CategorizationWarning(genre_name, Exc("ValueError", "invalid mood", 0, "")))
    ELSE calls

\* the calls on the context after the reply: a warning if the try block failed
AfterSampleCalls(calls, genre_name, reply) ==
    IF CategorizationFailure(reply) # NoExc
    THEN Append(calls, CategorizationWarning(genre_name, CategorizationFailure(reply)))
    ELSE calls

CategorizeLocals(genres, categorized, todo, genre_name, response, mood) ==
    [genres |-> genres, categorized |-> categorized, todo |-> todo,
     genre_name |-> genre_name, response |-> response, mood |-> mood]

\* `if mood in categorized: categorized[mood].append(genre_name)`
PlaceGenre(categorized, mood, genre_name) ==
    IF mood \in DOMAIN categorized
    THEN [categorized EXCEPT ![mood] = Append(@, genre_name)]
    ELSE categorized

\* the head of `for genre_name in sorted(genres.keys())`: the next genre, or
\* the return of the buckets
LoopHead(genres, categorized, todo) ==
    IF todo = <<>>
    THEN [pc |-> "done", ret |-> Return(categorized),
          loc |-> CategorizeLocals(genres, categorized, <<>>, "", NoReply, "")]
    ELSE [pc |-> "lookup", ret |-> NoReturn,
          loc |-> CategorizeLocals(genres, categorized, Tail(todo), Head(todo), NoReply, "")]

\* where _categorize_single_genre's result goes: to the caller of the tool,
\* or to the loop of categorize_all_genres
Resolved(mood, response) ==
    IF op = "_categorize_single_genre"
    THEN [pc |-> "done", ret |-> Return(mood),
          loc |-> [loc EXCEPT !.mood = mood, !.response = response]]
    ELSE [pc |-> "append", ret |-> NoReturn,
          loc |-> [loc EXCEPT !.mood = mood, !.response = response]]

CallCategorizeSingleGenre ==
    /\ op = "idle"
    /\ \E genre_name \in CatalogNames \cup DOMAIN GENRE_MOOD_MAP :
         /\ args' = [genre_name |-> genre_name]
         /\ loc' = CategorizeLocals(EmptyMap, EmptyMap, <<>>, genre_name, NoReply, "")
    /\ op' = "_categorize_single_genre"
    /\ pc' = "lookup"
    /\ env' = "unset"
    /\ net' = <<>>
    /\ ret' = NoReturn

CallCategorizeAllGenres ==
    /\ op = "idle"
    /\ op' = "categorize_all_genres"
    /\ args' = EmptyMap
    /\ net' = <<>>
    /\ \E key \in ApiKeys, fetched \in FetchOutcomes :
         /\ KeyMissing(key) <=> fetched = Raise(ConfigurationError)
         /\ env' = key
         /\ IF fetched.kind = "raise"
            THEN /\ pc' = "done"
                 /\ ret' = fetched
                 /\ loc' = CategorizeLocals(EmptyMap, EmptyMap, <<>>, "", NoReply, "")
            ELSE LET head == LoopHead(fetched.value, create_empty_categorized_dict,
                                      sorted(DOMAIN fetched.value))
                 IN  pc' = head.pc /\ ret' = head.ret /\ loc' = head.loc

\* the lookup in the hardcoded mapping, and the sampling call if it misses
CategorizeLookup ==
    /\ op \in {"_categorize_single_genre", "categorize_all_genres"}
    /\ pc = "lookup"
    /\ IF NeedsSampling(loc.genre_name)
       THEN /\ net' = Append(net, CategorizationCall(loc.genre_name))
            /\ pc' = "sample"
            /\ UNCHANGED <<ret, loc>>
       ELSE /\ pc' = Resolved(GENRE_MOOD_MAP[loc.genre_name], NoReply).pc
            /\ ret' = Resolved(GENRE_MOOD_MAP[loc.genre_name], NoReply).ret
            /\ loc' = Resolved(GENRE_MOOD_MAP[loc.genre_name], NoReply).loc
            /\ net' = net
    /\ UNCHANGED <<op, env, args>>

\* the sampling call settles
CategorizeSample ==
    /\ op \in {"_categorize_single_genre", "categorize_all_genres"}
    /\ pc = "sample"
    /\ \E reply \in MoodReplies :
         /\ net' = AfterSampleCalls(net, loc.genre_name, reply)
         /\ pc' = Resolved(SampledMood(reply), reply).pc
         /\ ret' = Resolved(SampledMood(reply), reply).ret
         /\ loc' = Resolved(SampledMood(reply), reply).loc
    /\ UNCHANGED <<op, env, args>>

CategorizeAppend ==
    /\ op = "categorize_all_genres" /\ pc = "append"
    /\ LET head == LoopHead(loc.genres,
                            PlaceGenre(loc.categorized, loc.mood, loc.genre_name), loc.todo)
       IN  pc' = head.pc /\ ret' = head.ret /\ loc' = head.loc
    /\ UNCHANGED <<op, env, args, net>>

(***************************************************************************)
(* simplify_genres.                                                        *)
(***************************************************************************)
\* the replies to the formatting prompt
SimplifyReplies ==
    { SampleReply("ok", PyStr(<<"Action,", " ", "Horror">>), NoExc),
      SampleReply("ok", PyStr(<<>>), NoExc),
      SampleReply("ok", PyNone, NoExc) }
    \cup {SampleReply("raise", PyNone, e) : e \in SampleErrors}

\* separator.join(names)
RECURSIVE join(_, _)
join(separator, names) ==
    IF names = <<>> THEN <<>>
    ELSE IF Len(names) = 1 THEN names
    ELSE <<Head(names), separator>> \o join(separator, Tail(names))

SimplifyWarning(e) == WarningCall("Sampling failed (" \o ErrorLabel(e) \o "), using fallback")

\* a handler that lets the sampling error reach the caller
SimplifyResult_Propagates(genres, response) ==
    IF response.outcome = "raise" THEN Raise(response.exc) ELSE Return(response.text)

\* what simplify_genres returns once the sampling call has settled
SimplifyResult(genres, response) ==
    IF response.outcome = "raise"
    THEN Return(PyStr(join(", ", sorted(DOMAIN genres))))
    ELSE Return(response.text)

SimplifyLocals(genres, response) == [genres |-> genres, response |-> response]

\* the fetch, and the sampling call if it gave a map
CallSimplifyGenres ==
    /\ op = "idle"
    /\ op' = "simplify_genres"
    /\ args' = EmptyMap
    /\ \E key \in ApiKeys, fetched \in FetchOutcomes :
         /\ KeyMissing(key) <=> fetched = Raise(ConfigurationError)
         /\ env' = key
         /\ IF fetched.kind = "raise"
            THEN /\ pc' = "done"
                 /\ ret' = fetched
                 /\ net' = <<>>
                 /\ loc' = SimplifyLocals(EmptyMap, NoReply)
            ELSE /\ pc' = "sample"
                 /\ ret' = NoReturn
                 /\ net' = <<SampleCall>>
                 /\ loc' = SimplifyLocals(fetched.value, NoReply)

\* the sampling call settles
SimplifySample ==
    /\ op = "simplify_genres" /\ pc = "sample"
    /\ \E response \in SimplifyReplies :
         /\ loc' = [loc EXCEPT !.response = response]
         /\ net' = IF response.outcome = "raise"
                   THEN Append(net, SimplifyWarning(response.exc))
                   ELSE net
         /\ ret' = SimplifyResult(loc.genres, response)
    /\ pc' = "done"
    /\ UNCHANGED <<op, env, args>>

(***************************************************************************)
(* The comparator: compare_llms, _call_claude, _call_ollama and            *)
(* _format_response.  asyncio.gather(..., return_exceptions=True) wraps    *)
(* the two coroutines in tasks, which run interleaved; it resumes          *)
(* compare_llms when both are done, with each task's returned value, the   *)
(* exception it raised, or a CancelledError if the task was cancelled.     *)
(* An exception object is an Obj whose t is its class and whose text is    *)
(* its message.                                                            *)
(***************************************************************************)
PyExc(class, message) == Obj(class, <<message>>, 0)

\* the classes of the model that derive from Exception; CancelledError
\* derives from BaseException alone
ExceptionClasses == {"RuntimeError", "ConnectionError", "ValueError", "TypeError"}
isinstance_Exception(result) == result.t \in ExceptionClasses

\* the truth value of an object, as `x if text else y` reads it
bool(value) ==
    IF value.t = "NoneType" THEN FALSE
    ELSE IF value.t = "str" THEN value.text # <<>>
    ELSE IF value.t = "int" THEN value.n # 0
    ELSE TRUE

OLLAMA_BASE_URL == "http://localhost:11434"
OLLAMA_DEFAULT_MODEL == "llama3.2:latest"

\* the arguments of compare_llms; temperature is a real number in the
\* code, of which the model takes the integers around its limits
Prompts == {<<>>, <<" ", "\n">>, <<"Why?">>, <<" ", "Why", " ", "not?">>}
AlternativeModels == {PyNone, PyStr(<<"mistral">>)}
Temperatures == {-1, 0, 1, 2, 3}
MaxTokensValues == {0, 1, 4000, 4001}

\* a range check that rejects the upper limits themselves
CompareValidation_OpenUpper(prompt, temperature, max_tokens) ==
    IF prompt = <<>> \/ strip(prompt) = <<>>
    THEN ValidationError("Prompt cannot be empty")
    ELSE IF temperature < 0 \/ temperature >= 2
    THEN ValidationError("Temperature must be between 0 and 2")
    ELSE IF max_tokens < 1 \/ max_tokens >= 4000
    THEN ValidationError("Max tokens must be between 1 and 4000")
    ELSE NoExc

\* the input validation of compare_llms: the exception raised, NoExc if none
CompareValidation(prompt, temperature, max_tokens) ==
    IF prompt = <<>> \/ strip(prompt) = <<>>
    THEN ValidationError("Prompt cannot be empty")
    ELSE IF temperature < 0 \/ temperature > 2
    THEN ValidationError("Temperature must be between 0 and 2")
    ELSE IF max_tokens < 1 \/ max_tokens > 4000
    THEN ValidationError("Max tokens must be between 1 and 4000")
    ELSE NoExc

\* what `await ctx.sample(...)` ends with in _call_claude: a reply with a
\* text (a string or None), a reply without a text attribute, an exception,
\* or the cancellation of the task
ClaudeReplies ==
    { SampleReply("ok", PyStr(<<"Because.">>), NoExc),
      SampleReply("ok", PyStr(<<>>), NoExc),
      SampleReply("ok", PyNone, NoExc),
      SampleReply("no_text", PyNone, NoExc),
      SampleReply("cancelled", PyNone, NoExc) }
    \cup {SampleReply("raise", PyNone, e) : e \in SampleErrors}

\* the value _call_claude returns or the exception it ends with
_call_claude(reply) ==
    IF reply.outcome = "ok" THEN reply.text
    ELSE IF reply.outcome = "cancelled" THEN PyExc("CancelledError", "")
    ELSE IF reply.outcome = "no_text"
    THEN PyExc("RuntimeError", "Claude API error: object has no attribute 'text'")
    ELSE PyExc("RuntimeError", "Claude API error: " \o reply.exc.msg)

\* the body of the model server's answer: a JSON object with or without a
\* "response" member, another JSON value, or text that is not JSON
Missing == Obj("missing", <<>>, 0)
OllamaBody(kind, response) == [kind |-> kind, response |-> response]
OllamaBodies ==
    {OllamaBody("object", r) :
        r \in {PyStr(<<"Why", " ", "not.">>), PyStr(<<>>), PyNone, PyInt(5), Missing}}
    \cup {OllamaBody("not_object", Missing), OllamaBody("invalid_json", Missing)}
OllamaResponses ==
    {Response("ok", 200, "", b) : b \in OllamaBodies}
    \cup {Response("ok", 500, "Internal error", OllamaBody("none", Missing)),
          Response("transport", 0, "Connection refused", OllamaBody("none", Missing)),
          Response("cancelled", 0, "", OllamaBody("none", Missing))}

\* a _call_ollama with one handler, and one message, for every failure
_call_ollama_OneHandler(response) ==
    IF response.outcome = "cancelled" THEN PyExc("CancelledError", "")
    ELSE IF response.outcome = "transport" THEN PyExc("RuntimeError", "Ollama error")
    ELSE IF ~is_success(response.status) THEN PyExc("RuntimeError", "Ollama error")
    ELSE IF response.body.kind \in {"invalid_json", "not_object"}
    THEN PyExc("RuntimeError", "Ollama error")
    ELSE IF response.body.response = Missing THEN PyStr(<<>>)
    ELSE response.body.response

\* the value _call_ollama returns or the exception it ends with
_call_ollama(response) ==
    IF response.outcome = "cancelled" THEN PyExc("CancelledError", "")
    ELSE IF response.outcome = "transport"
    THEN PyExc("ConnectionError",
               "Failed to connect to Ollama API at " \o OLLAMA_BASE_URL
               \o ". Is the Ollama server running? Error: " \o response.text)
    ELSE IF ~is_success(response.status)
    THEN PyExc("RuntimeError",
               "Ollama API error: " \o ToString(response.status) \o " - " \o response.text)
    ELSE IF response.body.kind = "invalid_json"
    THEN PyExc("RuntimeError", "Ollama error: Expecting value")
    ELSE IF response.body.kind = "not_object"
    THEN PyExc("RuntimeError", "Ollama error: object has no attribute 'get'")
    ELSE IF response.body.response = Missing THEN PyStr(<<>>)
    ELSE response.body.response

AgentResponse(text, model, error) == [text |-> text, model |-> model, error |-> error]

_format_response(result, model) ==
    IF isinstance_Exception(result)
    THEN AgentResponse(PyNone, model, PyStr(result.text))
    ELSE AgentResponse(result, model, PyNone)

\* `len(text) if text else 0`; len() of an object that is no string raises
LengthFails(text) == bool(text) /\ text.t # "str"
LengthOf(text) == IF bool(text) THEN len(text.text) ELSE 0

BothSucceeded(claude_response, alternative_response) ==
    claude_response.error = PyNone /\ alternative_response.error = PyNone

\* the statements of compare_llms after the gather
ComparisonResult(prompt, model, claude_result, alternative_result) ==
    LET claude_response == _format_response(claude_result, "claude-sonnet-4-5")
        alternative_response == _format_response(alternative_result, model)
    IN  IF LengthFails(claude_response.text) \/ LengthFails(alternative_response.text)
        THEN Raise(Exc("TypeError", "object has no len()", 0, ""))
        ELSE Return([prompt |-> prompt,
                     claude_response |-> claude_response,
                     alternative_response |-> alternative_response,
                     comparison |->
                       [claude_length |-> LengthOf(claude_response.text),
                        alternative_length |-> LengthOf(alternative_response.text),
                        both_succeeded |->
                          BothSucceeded(claude_response, alternative_response)]])

\* a task of the gather: created, awaiting its call, or done with a result
Task(state, result) == [state |-> state, result |-> result]
PostCall == CtxCall("client.post", "/api/generate")
\* `response` is the local of _call_ollama: what its `await client.post(...)` gave
CompareLocals(model, claude, ollama) ==
    [model |-> model, claude |-> claude, ollama |-> ollama, response |-> NoResponse]

\* a gather that resumes its caller at the first exception
GatherDone_FailFast(claude, ollama) ==
    \/ claude.state = "done" /\ ollama.state = "done"
    \/ claude.state = "done" /\ claude.result.t \in ExceptionClasses
    \/ ollama.state = "done" /\ ollama.result.t \in ExceptionClasses

\* asyncio.gather(..., return_exceptions=True) resumes its caller
GatherDone(claude, ollama) == claude.state = "done" /\ ollama.state = "done"

CallCompareLlms ==
    /\ op = "idle"
    /\ op' = "compare_llms"
    /\ pc' = "validate"
    /\ \E prompt \in Prompts, alternative_model \in AlternativeModels,
          temperature \in Temperatures, max_tokens \in MaxTokensValues :
         args' = [prompt |-> prompt, alternative_model |-> alternative_model,
                  temperature |-> temperature, max_tokens |-> max_tokens]
    /\ loc' = CompareLocals("", Task("none", PyNone), Task("none", PyNone))
    /\ env' = "unset"
    /\ net' = <<>>
    /\ ret' = NoReturn

\* the validation, the choice of the model and the creation of the tasks
CompareValidate ==
    /\ op = "compare_llms" /\ pc = "validate"
    /\ LET e == CompareValidation(args.prompt, args.temperature, args.max_tokens)
       IN  IF e # NoExc
           THEN pc' = "done" /\ ret' = Raise(e) /\ loc' = loc
           ELSE /\ pc' = "gather"
                /\ ret' = ret
                /\ loc' = CompareLocals(
                            IF bool(args.alternative_model)
                            THEN Joined(args.alternative_model.text)
                            ELSE OLLAMA_DEFAULT_MODEL,
                            Task("created", PyNone), Task("created", PyNone))
    /\ UNCHANGED <<op, env, args, net>>

\* the first task runs up to its `await ctx.sample(...)`
ClaudeStart ==
    /\ op = "compare_llms" /\ pc = "gather"
    /\ loc.claude.state = "created"
    /\ net' = Append(net, SampleCall)
    /\ loc' = [loc EXCEPT !.claude = Task("awaiting", PyNone)]
    /\ UNCHANGED <<op, pc, env, args, ret>>

\* the sampling call settles and the first task ends
ClaudeSettle ==
    /\ op = "compare_llms" /\ pc = "gather"
    /\ loc.claude.state = "awaiting"
    /\ \E reply \in ClaudeReplies :
         loc' = [loc EXCEPT !.claude = Task("done", _call_claude(reply))]
    /\ UNCHANGED <<op, pc, env, args, net, ret>>

\* the second task runs up to its `await client.post(...)`
OllamaStart ==
    /\ op = "compare_llms" /\ pc = "gather"
    /\ loc.ollama.state = "created"
    /\ net' = Append(net, PostCall)
    /\ loc' = [loc EXCEPT !.ollama = Task("awaiting", PyNone)]
    /\ UNCHANGED <<op, pc, env, args, ret>>

\* the HTTP call settles and the second task ends
OllamaSettle ==
    /\ op = "compare_llms" /\ pc = "gather"
    /\ loc.ollama.state = "awaiting"
    /\ \E response \in OllamaResponses :
         loc' = [loc EXCEPT !.ollama = Task("done", _call_ollama(response)),
                            !.response = response]
    /\ UNCHANGED <<op, pc, env, args, net, ret>>

\* the gather resumes compare_llms, which formats and returns
CompareJoin ==
    /\ op = "compare_llms" /\ pc = "gather"
    /\ GatherDone(loc.claude, loc.ollama)
    /\ ret' = ComparisonResult(args.prompt, loc.model, loc.claude.result, loc.ollama.result)
    /\ pc' = "done"
    /\ UNCHANGED <<op, env, args, loc, net>>

(***************************************************************************)
(* _build_discovery_params: the query of a discovery request, a dict from  *)
(* parameter names to the values passed.  Of a media configuration the     *)
(* function reads year_param only.                                         *)
(***************************************************************************)
FILM_CONFIG == [media_type |-> "film", year_param |-> "primary_release_year"]
TV_CONFIG == [media_type |-> "tv", year_param |-> "first_air_date_year"]
MediaConfigs == {FILM_CONFIG, TV_CONFIG}

False == [t |-> "bool", n |-> 0, s |-> ""]

\* a year filter under the film key whatever the media type
year_param_FilmOnly(media_config) == "primary_release_year"

\* `media_config.year_param`
year_param(media_config) == media_config.year_param

\* `if value is not None: params[key] = value`
SetIfNotNone(params, key, value, none) ==
    IF value # none THEN DictSet(params, key, value) ELSE params

_build_discovery_params(api_key, genre_id, year, language, sort_by, page, media_config) ==
    LET params == ("api_key" :> JStr(api_key)) @@ ("sort_by" :> JStr(sort_by))
                  @@ ("page" :> JInt(page)) @@ ("include_adult" :> False)
                  @@ ("include_video" :> False)
        with_genre == SetIfNotNone(params, "with_genres", genre_id, JNull)
        with_year == SetIfNotNone(with_genre, year_param(media_config), year, JNull)
    IN  SetIfNotNone(with_year, "with_original_language", language, LNone)

CallBuildDiscoveryParams ==
    /\ op = "idle"
    /\ \E genre_id \in GenreIds, year \in Years, language \in Languages,
          sort_by \in SortOptions, page \in Pages, media_config \in MediaConfigs :
         args' = [api_key |-> "test_api_key", genre_id |-> genre_id, year |-> year,
                  language |-> language, sort_by |-> sort_by, page |-> page,
                  media_config |-> media_config]
    /\ op' = "_build_discovery_params"
    /\ pc' = "build"
    /\ env' = "unset"
    /\ loc' = EmptyMap
    /\ net' = <<>>
    /\ ret' = NoReturn

BuildDiscoveryParams ==
    /\ op = "_build_discovery_params" /\ pc = "build"
    /\ ret' = Return(_build_discovery_params(args.api_key, args.genre_id, args.year,
                                             args.language, args.sort_by, args.page,
                                             args.media_config))
    /\ pc' = "done"
    /\ UNCHANGED <<op, env, args, loc, net>>

(***************************************************************************)
(* The warning sink of the host.  `await ctx.warning(...)` stands in the   *)
(* except branch of _categorize_single_genre and of simplify_genres,       *)
(* outside any try block: when the host cannot take the notice and the     *)
(* await raises, the exception leaves the function, and with it            *)
(* categorize_all_genres.  These steps belong to HostSpec only; under Spec *)
(* the sink takes every notice.                                            *)
(***************************************************************************)
WarningErrors == {Exc("ConnectionError", "Client disconnected", 0, "")}

CategorizeWarningRaises ==
    /\ op \in {"_categorize_single_genre", "categorize_all_genres"}
    /\ pc = "sample"
    /\ \E reply \in MoodReplies, e \in WarningErrors :
         /\ CategorizationFailure(reply) # NoExc
         /\ net' = AfterSampleCalls(net, loc.genre_name, reply)
         /\ loc' = [loc EXCEPT !.response = reply]
         /\ ret' = Raise(e)
    /\ pc' = "done"
    /\ UNCHANGED <<op, env, args>>

SimplifyWarningRaises ==
    /\ op = "simplify_genres" /\ pc = "sample"
    /\ \E response \in SimplifyReplies, e \in WarningErrors :
         /\ response.outcome = "raise"
         /\ net' = Append(net, SimplifyWarning(response.exc))
         /\ loc' = [loc EXCEPT !.response = response]
         /\ ret' = Raise(e)
    /\ pc' = "done"
    /\ UNCHANGED <<op, env, args>>

(***************************************************************************)
(* The invocation ends: its request-scoped state is discarded, and so is   *)
(* what it read of the environment (the next one reads it afresh).         *)
(***************************************************************************)
Finish ==
    /\ op # "idle" /\ pc = "done"
    /\ op' = "idle"
    /\ pc' = "idle"
    /\ args' = EmptyMap
    /\ loc' = EmptyMap
    /\ net' = <<>>
    /\ ret' = NoReturn
    /\ env' = "unset"

Init ==
    /\ op = "idle"
    /\ pc = "idle"
    /\ env = "unset"
    /\ args = EmptyMap
    /\ loc = EmptyMap
    /\ net = <<>>
    /\ ret = NoReturn

Next ==
    \/ CallFetchGenres
    \/ FetchCheckKey
    \/ FetchGetMovie
    \/ FetchGetTv
    \/ FetchParse
    \/ CallExcludeIncompleteGenres
    \/ ExcludeIncompleteGenres
    \/ CallFilterAndFormat
    \/ FilterIncompleteMedia
    \/ FormatDiscoveryResponse
    \/ CallDiscoverMedia
    \/ CallDiscoverFilms
    \/ CallDiscoverTvShows
    \/ DiscoverValidate
    \/ ServiceDiscover
    \/ DiscoverFormat
    \/ CallDiscoverFilmsFromTmdb
    \/ CallDiscoverTvShowsFromTmdb
    \/ DiscoverFromTmdbFormat
    \/ CallCategorizeSingleGenre
    \/ CallCategorizeAllGenres
    \/ CategorizeLookup
    \/ CategorizeSample
    \/ CategorizeAppend
    \/ CallSimplifyGenres
    \/ SimplifySample
    \/ CallCompareLlms
    \/ CompareValidate
    \/ ClaudeStart
    \/ ClaudeSettle
    \/ OllamaStart
    \/ OllamaSettle
    \/ CompareJoin
    \/ CallBuildDiscoveryParams
    \/ BuildDiscoveryParams
    \/ Finish

Spec == Init /\ [][Next]_vars

\* the program with a host whose warning sink may fail
HostNext ==
    \/ Next
    \/ CategorizeWarningRaises
    \/ SimplifyWarningRaises

HostSpec == Init /\ [][HostNext]_vars

(***************************************************************************)
(* Properties of the genre catalog fetcher.                                *)
(***************************************************************************)
FetchDone == op = "fetch_genres" /\ pc = "done"
FetchReturned == FetchDone /\ ret.kind = "return"

\* the names and ids a list of validated genres holds
Names(genres) == {genres[i].name : i \in 1..Len(genres)}
IdsOf(genres, name) == {genres[i].id : i \in {j \in 1..Len(genres) : genres[j].name = name}}
Reverse(seq) == [i \in 1..Len(seq) |-> seq[Len(seq) + 1 - i]]
Flags(genres_map) ==
    [name \in DOMAIN genres_map |-> <<genres_map[name].has_movies, genres_map[name].has_tv_shows>>]

\* C1: the merged map has exactly the names of either validated list; a
\* name's film flag is true iff the film list has the name and its TV flag
\* iff the TV list has it, so every entry has a flag set; and the flags are
\* the same for the lists taken in another order.
C1_MergedNamesAndFlags ==
    FetchReturned =>
        /\ DOMAIN ret.value = Names(loc.movie_genres) \cup Names(loc.tv_genres)
        /\ \A name \in DOMAIN ret.value :
             /\ ret.value[name].has_movies <=> name \in Names(loc.movie_genres)
             /\ ret.value[name].has_tv_shows <=> name \in Names(loc.tv_genres)
             /\ ret.value[name].has_movies \/ ret.value[name].has_tv_shows
        /\ Flags(_combine_genre_lists(Reverse(loc.movie_genres), Reverse(loc.tv_genres)))
             = Flags(ret.value)

\* a merge of a film list of two names with a TV list sharing one of them
C1_Witness ==
    /\ FetchReturned
    /\ Names(loc.movie_genres) = {"Action", "Drama"}
    /\ Names(loc.tv_genres) = {"Drama"}
    /\ ret.value["Drama"].has_movies /\ ret.value["Drama"].has_tv_shows
    /\ ret.value["Action"].has_movies /\ ~ret.value["Action"].has_tv_shows

\* C2: an entry whose name the film list has carries an id the film list
\* gives that name, whatever id the TV list gives it; an id comes from the
\* TV list only for a name the film list does not have.
C2_FilmIdKept ==
    FetchReturned =>
        \A name \in DOMAIN ret.value :
            IF name \in Names(loc.movie_genres)
            THEN ret.value[name].id \in IdsOf(loc.movie_genres, name)
            ELSE ret.value[name].id \in IdsOf(loc.tv_genres, name)

\* Drama is 18 in the film list and 99 in the TV list
C2_Witness ==
    /\ FetchReturned
    /\ IdsOf(loc.movie_genres, "Drama") = {18}
    /\ IdsOf(loc.tv_genres, "Drama") = {99}
    /\ ret.value["Drama"].id = 18

\* the raw record has the field
HasField(v) == v.t # "absent"
HasBothFields(genre) == HasField(genre.id) /\ HasField(genre.name)
Validated(raw) == [i \in 1..Len(raw) |-> [id |-> raw[i].id.n, name |-> raw[i].name.s]]

\* both requests succeeded and both bodies are objects with a list of records
BothListsArrived ==
    /\ FetchDone
    /\ loc.movie_response.outcome = "ok" /\ is_success(loc.movie_response.status)
    /\ loc.tv_response.outcome = "ok" /\ is_success(loc.tv_response.status)
    /\ loc.movie_response.body.kind \in {"genres", "no_genres_key"}
    /\ loc.tv_response.body.kind \in {"genres", "no_genres_key"}

C5_NoKeyNoRequest ==
    (op = "fetch_genres" /\ env \in {"unset", ""}) =>
        /\ net = <<>>
        /\ pc = "done" =>
             /\ ret.kind = "raise"
             /\ ret.exc.type = "ValueError"
             /\ ret.exc.msg = "TMDB_API_KEY not configured"

\* the invocation has ended with the key set to the empty string
C5_Witness == FetchDone /\ env = "" /\ ret.kind = "raise"

\* the response of the last request the invocation issued
LastResponse == IF loc.tv_response # NoResponse THEN loc.tv_response ELSE loc.movie_response

\* C6: the invocation ends with the provider error, carrying the status
\* code and body, exactly when a request returned an error status; with the
\* connectivity error exactly when a request failed in transport; with the
\* malformed-response error exactly when both statuses were successes and
\* the first body that fails to yield a list is not JSON.  The connectivity
\* error differs in type from the other two, which differ in message.
C6_FailureClasses ==
    FetchDone /\ net # <<>> =>
        LET errorStatus == LastResponse.outcome = "ok" /\ ~is_success(LastResponse.status)
            transport == LastResponse.outcome = "transport"
            notJson ==
                /\ Len(net) = 2 /\ ~errorStatus /\ ~transport
                /\ \/ loc.movie_response.body.kind = "invalid_json"
                   \/ /\ loc.movie_response.body.kind # "not_object"
                      /\ loc.tv_response.body.kind = "invalid_json"
        IN  /\ errorStatus <=>
                 (ret.kind = "raise" /\ ret.exc.type = "RuntimeError" /\ ret.exc.msg = "TMDB API error")
            /\ errorStatus =>
                 (ret.exc.status = LastResponse.status /\ ret.exc.text = LastResponse.text)
            /\ transport <=> (ret.kind = "raise" /\ ret.exc.type = "ConnectionError")
            /\ notJson <=>
                 (ret.kind = "raise" /\ ret.exc.type = "RuntimeError"
                    /\ ret.exc.msg = "TMDB API returned invalid JSON")

\* the TV request failed in transport after the film request succeeded
C6_Witness ==
    /\ FetchDone
    /\ Len(net) = 2
    /\ loc.tv_response.outcome = "transport"
    /\ ret.exc.type = "ConnectionError"

(***************************************************************************)
(* Properties of the record validators and of the response formatter.      *)
(***************************************************************************)
GenresValidated == op = "_exclude_incomplete_genres" /\ pc = "done"
MediaFiltered == op = "_format_discovery_response" /\ pc \in {"format", "done"}
ResponseFormatted == op = "_format_discovery_response" /\ pc = "done"

\* the identifier is present and an integer (or a numeric string, which the
\* model classes read as one)
IdentifierOk(v) == v.t \in {"int", "numstr"}
IdentifierRecordOk(record) == IdentifierOk(record.id)
GenreRecordOk(record) == IdentifierOk(record.id) /\ record.name.t = "str"

\* C4 as stated: a record is validated iff its identifier is present and of
\* the right type, for genre records as for catalog item records.
C4_IdentifierAloneDecides ==
    /\ GenresValidated =>
         Len(ret.value) = Len(SelectSeq(args.genres_data, IdentifierRecordOk))
    /\ MediaFiltered =>
         Len(loc.media_items) = Len(SelectSeq(args.raw_data.results, IdentifierRecordOk))

\* the title and date of a validated catalog item, whichever class it has
TitleOf(item) == IF hasattr(item, "title") THEN item.title ELSE item.name
DateOf(item) == IF hasattr(item, "title") THEN item.release_date ELSE item.first_air_date

\* C4 (amended): a catalog item record is validated iff its id is present
\* and an integer or numeric string; a genre record iff, besides, its name
\* is present and a string.  The validated records keep the provider's
\* order, and a catalog item's other fields are None when missing (the
\* empty list for genre_ids), never a reason to drop it.
C4_MandatoryFieldsDecide ==
    /\ GenresValidated =>
         LET kept == SelectSeq(args.genres_data, GenreRecordOk)
         IN  ret.value = [i \in 1..Len(kept) |-> [id |-> kept[i].id.n, name |-> kept[i].name.s]]
    /\ MediaFiltered =>
         LET kept == SelectSeq(args.raw_data.results, IdentifierRecordOk)
         IN  /\ Len(loc.media_items) = Len(kept)
             /\ \A i \in 1..Len(kept) :
                  LET item == loc.media_items[i]
                      raw == kept[i]
                  IN  /\ item.id = raw.id.n
                      /\ TitleOf(item) = (IF raw.title = Absent THEN JNull ELSE raw.title)
                      /\ DateOf(item) = (IF raw.date = Absent THEN JNull ELSE raw.date)
                      /\ item.vote_average =
                           (IF raw.vote_average = Absent THEN JNull ELSE raw.vote_average)
                      /\ item.overview = (IF raw.overview = Absent THEN JNull ELSE raw.overview)
                      /\ item.genre_ids =
                           (IF raw.genre_ids = GAbsent THEN <<>> ELSE raw.genre_ids.items)

\* a genre record with an id and no name is dropped, the whole one is kept
C4_Witness ==
    /\ GenresValidated
    /\ args.genres_data =
         <<[id |-> JInt(18), name |-> Absent], [id |-> JInt(28), name |-> JStr("Action")]>>
    /\ ret.value = <<[id |-> 28, name |-> "Action"]>>

\* C10: a record that carries only an id is returned, with its scalar
\* fields None and genre_ids empty; a record without an id is left out and
\* the operation returns all the same; the totals are the envelope's own,
\* 0 when the envelope lacks them, whatever was left out.
C10_OnlyIdValidNoIdDropped ==
    ResponseFormatted =>
        LET raw == args.raw_data.results
            kept == SelectSeq(raw, IdentifierRecordOk)
            results == ret.value.results
        IN  /\ ret.kind = "return"
            /\ Len(results) = Len(kept)
            /\ \A i \in 1..Len(kept) :
                 /\ results[i].id = kept[i].id.n
                 /\ kept[i] = OnlyId(kept[i].id) =>
                      /\ TitleOf(results[i]) = JNull
                      /\ DateOf(results[i]) = JNull
                      /\ results[i].vote_average = JNull
                      /\ results[i].overview = JNull
                      /\ results[i].genre_ids = <<>>
            /\ ret.value.total_results =
                 (IF args.raw_data.total_results = Absent THEN JInt(0)
                  ELSE args.raw_data.total_results)
            /\ ret.value.total_pages =
                 (IF args.raw_data.total_pages = Absent THEN JInt(0)
                  ELSE args.raw_data.total_pages)

\* a record with only an id beside one with no id, in an envelope that
\* counts 4 results and gives no page count
C10_Witness ==
    /\ ResponseFormatted
    /\ args.raw_data.results = <<OnlyTitle, OnlyId(JInt(4))>>
    /\ args.raw_data.total_results = JInt(4)
    /\ args.raw_data.total_pages = Absent
    /\ Len(ret.value.results) = 1
    /\ ret.value.results[1].id = 4
    /\ ret.value.results[1].genre_ids = <<>>
    /\ ret.value.total_results = JInt(4)
    /\ ret.value.total_pages = JInt(0)

(***************************************************************************)
(* Properties of the discovery tools.                                      *)
(***************************************************************************)
\* the constraints of a discovery query, on the arguments of the invocation
MediaTypeLegal == args.media_type = "film" \/ args.media_type = "tv"
YearLegal == args.year = JNull \/ args.year.n >= 1900
PageLegal == args.page >= 1
MaxResultsLegal == args.max_results >= 1 /\ args.max_results <= 100
LanguageLegal ==
    \/ args.language = LNone
    \/ /\ args.language.t = "str"
       /\ Len(args.language.chars) = 2
       /\ \A i \in 1..2 : args.language.chars[i] \in {"e", "n", "g"}
SortLegal ==
    args.sort_by \in {"popularity.asc", "popularity.desc", "vote_average.asc",
                      "vote_average.desc", "date.asc", "date.desc"}
QueryLegal ==
    MediaTypeLegal /\ YearLegal /\ PageLegal /\ MaxResultsLegal /\ LanguageLegal /\ SortLegal

\* the invocation ended with a validation error
ValidationFailed ==
    /\ pc = "done"
    /\ ret.kind = "raise"
    /\ ret.exc.type = "ValueError"
    /\ ret.exc.msg # "TMDB_API_KEY not configured"

\* C7: the validation accepts a parameter tuple iff every constraint holds
\* of it, and fails with a validation error otherwise.
C7_ValidationAcceptsExactlyLegal ==
    (op = "discover_media" /\ pc # "validate") => (QueryLegal <=> ~ValidationFailed)

\* the boundary values year=1900, page=1, max_results=100 have been accepted
C7_Witness ==
    /\ op = "discover_media" /\ pc = "call_service"
    /\ args.year = JInt(1900) /\ args.page = 1 /\ args.max_results = 100
    /\ args.language = LStr(<<"e", "n">>) /\ args.sort_by = "date.asc"

\* C8: an invocation whose parameters violate a constraint issues no
\* request and ends with a validation error, which cites 1900 when it is
\* the year that is below it; so a request is issued only for a legal query.
C8_ValidationBeforeService ==
    (op = "discover_media" /\ ~QueryLegal) =>
        /\ net = <<>>
        /\ pc \in {"validate", "done"}
        /\ pc = "done" =>
             /\ ValidationFailed
             /\ (MediaTypeLegal /\ ~YearLegal) => ret.exc.msg = "year must be 1900 or later"

\* year=1899 has failed validation, with the API key set
C8_Witness ==
    /\ op = "discover_media" /\ pc = "done"
    /\ args.media_type = "film" /\ args.year = JInt(1899)
    /\ env = "test_api_key"
    /\ ret.exc.msg = "year must be 1900 or later"
    /\ net = <<>>

DiscoveryReturned ==
    /\ op \in {"discover_media", "discover_films_from_tmdb", "discover_tv_shows_from_tmdb"}
    /\ pc = "done"
    /\ ret.kind = "return"

\* the identifier and title of a returned item, whichever format it has
ResultId(result) == IF op = "discover_media" THEN result.id.n ELSE result.id
ResultTitle(result) == IF hasattr(result, "name") THEN result.name ELSE result.title

\* C9: the returned items are the first min(max_results, number of records
\* with a valid id) of the records with a valid id, in the provider's order.
C9_PrefixOfValidated ==
    DiscoveryReturned =>
        LET kept == SelectSeq(loc.raw_data.results, IdentifierRecordOk)
            k == IF args.max_results < Len(kept) THEN args.max_results ELSE Len(kept)
            results == ret.value.results
        IN  /\ Len(results) = k
            /\ \A i \in 1..k :
                 /\ ResultId(results[i]) = kept[i].id.n
                 /\ ResultTitle(results[i]) = (IF kept[i].title = Absent THEN JNull ELSE kept[i].title)

\* a record without an id precedes two with one and max_results is 1: the
\* first of the two is returned, alone
C9_Witness ==
    /\ DiscoveryReturned
    /\ op = "discover_films_from_tmdb"
    /\ loc.raw_data.results = <<OnlyTitle, CompleteItem(1), OnlyId(JInt(4))>>
    /\ args.max_results = 1
    /\ Len(ret.value.results) = 1
    /\ ret.value.results[1].id = 1

(***************************************************************************)
(* Properties of the mood categorizer.                                     *)
(***************************************************************************)
SingleGenreDone == op = "_categorize_single_genre" /\ pc = "done"
AllGenresReturned == op = "categorize_all_genres" /\ pc = "done" /\ ret.kind = "return"
\* categorize_all_genres holds the mood of the genre it is about to place
MoodResolved == op = "categorize_all_genres" /\ pc = "append"
InTable(genre_name) == genre_name \in DOMAIN GENRE_MOOD_MAP

\* C11: for a genre name of the static table the categorization of one
\* genre calls the context not once, for sampling or for a warning, and
\* returns the table's bucket; a categorization of all genres whose names
\* are all in the table calls the context not once either.
C11_TableGenresNeedNoSampling ==
    /\ (op = "_categorize_single_genre" /\ InTable(args.genre_name)) =>
          /\ net = <<>>
          /\ pc = "done" => ret = Return(GENRE_MOOD_MAP[args.genre_name])
    /\ (MoodResolved /\ InTable(loc.genre_name)) =>
          loc.mood = GENRE_MOOD_MAP[loc.genre_name] /\ loc.response = NoReply
    /\ (op = "categorize_all_genres" /\ \A name \in DOMAIN loc.genres : InTable(name)) =>
          net = <<>>

\* Horror has been categorized as Dark
C11_Witness ==
    /\ SingleGenreDone
    /\ args.genre_name = "Horror"
    /\ ret = Return("Dark")
    /\ net = <<>>

\* the reply's text, stripped, is one of the five mood words
ReplyInSet(reply) ==
    /\ reply.outcome = "ok"
    /\ reply.text.t = "str"
    /\ \E mood \in {"Dark", "Light", "Serious", "Fun", "Other"} : strip(reply.text.text) = <<mood>>

PlacesOf(categorized, name) ==
    {place \in (DOMAIN categorized) \X (1..(MaxCatalog + 1)) :
        /\ place[2] <= Len(categorized[place[1]])
        /\ categorized[place[1]][place[2]] = name}

\* C13: the mapping returned has the five buckets, the empty ones as empty
\* lists; each fetched genre name has one place in them and they hold
\* nothing else; inside a bucket the names are in increasing order.
C13_FiveBucketsPartitionSorted ==
    AllGenresReturned =>
        /\ DOMAIN ret.value = {"Dark", "Light", "Serious", "Fun", "Other"}
        /\ \A name \in DOMAIN loc.genres : Cardinality(PlacesOf(ret.value, name)) = 1
        /\ \A mood \in DOMAIN ret.value :
              /\ \A i \in 1..Len(ret.value[mood]) : ret.value[mood][i] \in DOMAIN loc.genres
              /\ \A i, j \in 1..Len(ret.value[mood]) :
                    i < j => Rank(ret.value[mood][i]) < Rank(ret.value[mood][j])

\* two names outside the table beside two of it: Other holds the two in
\* order and two buckets stay empty
C13_Witness ==
    /\ AllGenresReturned
    /\ DOMAIN loc.genres = {"horror", "Western", "Horror", "Action"}
    /\ ret.value["Other"] = <<"Western", "horror">>
    /\ ret.value["Dark"] = <<"Horror">>
    /\ ret.value["Fun"] = <<"Action">>
    /\ ret.value["Light"] = <<>>
    /\ ret.value["Serious"] = <<>>

(***************************************************************************)
(* Properties of simplify_genres.                                          *)
(***************************************************************************)
SimplifySettled == op = "simplify_genres" /\ pc = "done" /\ loc.response # NoReply

\* the text is the names of the set, each once, in increasing order, with
\* ", " between two neighbours
SortedCommaJoined(text, names) ==
    /\ Len(text) = (IF names = {} THEN 0 ELSE 2 * Cardinality(names) - 1)
    /\ {text[i] : i \in {k \in 1..Len(text) : k % 2 = 1}} = names
    /\ \A i \in 1..Len(text) : i % 2 = 0 => text[i] = ", "
    /\ \A i, j \in 1..Len(text) :
         (i % 2 = 1 /\ j % 2 = 1 /\ i < j) => Rank(text[i]) < Rank(text[j])

PromptLegal == \E i \in 1..Len(args.prompt) : args.prompt[i] \notin {" ", "\n"}
TemperatureLegal == 0 <= args.temperature /\ args.temperature <= 2
MaxTokensLegal == 1 <= args.max_tokens /\ args.max_tokens <= 4000
CompareLegal == PromptLegal /\ TemperatureLegal /\ MaxTokensLegal
CompareEnded == op = "compare_llms" /\ pc = "done"
CompareReturned == CompareEnded /\ ret.kind = "return"

\* C15: an invocation whose prompt is empty or blank, whose temperature is
\* outside 0..2 or whose max_tokens is outside 1..4000 creates no task,
\* makes neither the sampling call nor the HTTP call and ends with a
\* validation error; an invocation within the limits, the limits
\* themselves included, passes the validation.
C15_ValidationBeforeDispatch ==
    op = "compare_llms" =>
        /\ ~CompareLegal =>
             /\ net = <<>>
             /\ pc \in {"validate", "done"}
             /\ loc.claude.state = "none" /\ loc.ollama.state = "none"
             /\ pc = "done" => (ret.kind = "raise" /\ ret.exc.type = "ValueError")
        /\ (CompareLegal /\ pc # "validate") =>
             /\ loc.claude.state # "none" /\ loc.ollama.state # "none"
             /\ ~(ret.kind = "raise" /\ ret.exc.type = "ValueError")

\* a blank prompt has been rejected
C15_Witness ==
    /\ CompareEnded
    /\ args.prompt = <<" ", "\n">>
    /\ args.temperature = 2 /\ args.max_tokens = 4000
    /\ ret.exc.msg = "Prompt cannot be empty"
    /\ net = <<>>

\* C16: compare_llms ends, after a passed validation, only when both tasks
\* are done, each having made its call once; and while a task is done,
\* with whatever result, the other one can take its next step.
C16_JoinAfterBothSettled ==
    /\ (CompareEnded /\ CompareLegal) =>
         /\ loc.claude.state = "done" /\ loc.ollama.state = "done"
         /\ net \in {<<SampleCall, PostCall>>, <<PostCall, SampleCall>>}
    /\ (op = "compare_llms" /\ pc = "gather") =>
         /\ loc.ollama.state = "created" => ENABLED OllamaStart
         /\ loc.ollama.state = "awaiting" => ENABLED OllamaSettle
         /\ loc.claude.state = "created" => ENABLED ClaudeStart
         /\ loc.claude.state = "awaiting" => ENABLED ClaudeSettle

\* the sampling path was started first and failed, the HTTP path replied,
\* and the result holds both
C16_Witness ==
    /\ CompareReturned
    /\ net = <<SampleCall, PostCall>>
    /\ loc.claude.result.t = "RuntimeError"
    /\ loc.ollama.result = PyStr(<<"Why", " ", "not.">>)
    /\ ret.value.claude_response.error # PyNone
    /\ ret.value.alternative_response.text = PyStr(<<"Why", " ", "not.">>)

\* a step of one task leaves the other task as it is
SiblingUntouched ==
    [][(op = "compare_llms" /\ pc = "gather" /\ pc' = "gather") =>
          (loc'.claude = loc.claude \/ loc'.ollama = loc.ollama)]_vars

\* an exception a path ended with is the error of its AgentResponse
PathFailuresAreData ==
    CompareReturned =>
        /\ loc.claude.result.t \in {"RuntimeError", "ConnectionError"} =>
             ret.value.claude_response = AgentResponse(PyNone, "claude-sonnet-4-5",
                                                       PyStr(loc.claude.result.text))
        /\ loc.ollama.result.t \in {"RuntimeError", "ConnectionError"} =>
             ret.value.alternative_response = AgentResponse(PyNone, loc.model,
                                                            PyStr(loc.ollama.result.text))

\* the path ended with a text, with an exception or cancelled
EndedAsPath(task) ==
    task.state = "done" /\ task.result.t \in {"str", "RuntimeError", "ConnectionError", "CancelledError"}

\* C17: once the validation has passed compare_llms ends by returning a
\* ComparisonResult, whether the two paths ended with a text, with a
\* failure or cancelled; a path that did not end with a text has its
\* failure as the error of its AgentResponse.
C17_AlwaysReturnsComparison ==
    (CompareEnded /\ CompareLegal /\ EndedAsPath(loc.claude) /\ EndedAsPath(loc.ollama)) =>
        /\ ret.kind = "return"
        /\ loc.claude.result.t # "str" => ret.value.claude_response.error # PyNone
        /\ loc.ollama.result.t # "str" => ret.value.alternative_response.error # PyNone

\* one of the text and the error of an AgentResponse is set and the other
\* is None
ExactlyOneSet(response) == (response.text = PyNone) # (response.error = PyNone)

\* C18: in a returned ComparisonResult each AgentResponse has exactly one
\* of text and error set.
C18_ExactlyOneOfTextAndError ==
    CompareReturned =>
        /\ ExactlyOneSet(ret.value.claude_response)
        /\ ExactlyOneSet(ret.value.alternative_response)

\* the path produced text and no error
ProducedText(response) == response.text # PyNone /\ response.error = PyNone

\* C19: both_succeeded is true iff both paths produced text with no error,
\* and each length is the length of the path's text, 0 when there is none.
C19_BothSucceededIffBothTexts ==
    CompareReturned =>
        /\ ret.value.comparison.both_succeeded <=>
             (ProducedText(ret.value.claude_response)
                /\ ProducedText(ret.value.alternative_response))
        /\ ret.value.comparison.claude_length =
             (IF ret.value.claude_response.text = PyNone THEN 0
              ELSE len(ret.value.claude_response.text.text))
        /\ ret.value.comparison.alternative_length =
             (IF ret.value.alternative_response.text = PyNone THEN 0
              ELSE len(ret.value.alternative_response.text.text))

(***************************************************************************)
(* Properties of the requests of fetch_genres.                             *)
(***************************************************************************)
RequestFailed(response) ==
    response.outcome = "transport" \/ (response.outcome = "ok" /\ ~is_success(response.status))
RequestSucceeded(response) == response.outcome = "ok" /\ is_success(response.status)

\* the requests issued so far and what became of them
FetchRequestsInOrder ==
    op = "fetch_genres" =>
        /\ net \in {<<>>, <<"/genre/movie/list">>, <<"/genre/movie/list", "/genre/tv/list">>}
        /\ Len(net) >= 1 <=> loc.movie_response # NoResponse
        /\ Len(net) = 2 <=> loc.tv_response # NoResponse
        /\ Len(net) = 2 => RequestSucceeded(loc.movie_response)
        /\ (RequestFailed(loc.movie_response) \/ RequestFailed(loc.tv_response)) =>
              /\ pc = "done"
              /\ ret.kind = "raise"
              /\ ret.value = EmptyMap
              /\ ret.exc.type \in {"RuntimeError", "ConnectionError"}

\* a step of the invocation issues at most one request, and none once a
\* request has failed or the invocation has ended
FetchRequestStep ==
    (op = "fetch_genres" /\ op' = "fetch_genres") =>
        /\ net' = net \/ (\E request \in {"/genre/movie/list", "/genre/tv/list"} :
                             net' = Append(net, request))
        /\ (pc = "done" \/ RequestFailed(loc.movie_response) \/ RequestFailed(loc.tv_response)) =>
              net' = net

\* C20: an invocation of fetch_genres requests the film list at most once
\* and the TV list at most once, the TV list only after the film request
\* has returned a success status; a request that failed is not repeated,
\* and after a failure no request follows and the invocation ends with
\* the error, returning no map.
C20_RequestsSequentialNoRetry == []FetchRequestsInOrder /\ [][FetchRequestStep]_vars

\* the film request was answered with an error status: one request, no map
C20_Witness ==
    /\ FetchDone
    /\ net = <<"/genre/movie/list">>
    /\ loc.movie_response.status = 500
    /\ ret.kind = "raise"
    /\ ret.exc.status = 500


(***************************************************************************)
(* The order of the checks of the discovery validation.                    *)
(***************************************************************************)
\* C21: an invocation whose media_type is none of the supported ones ends
\* with the error about media_type, whatever its year, page, max_results,
\* language and sort_by are, and issues no request.
C21_MediaTypeCheckedFirst ==
    (op = "discover_media" /\ ~MediaTypeLegal /\ pc # "validate") =>
        /\ pc = "done"
        /\ ret = Raise(ValidationError("media_type must be 'film' or 'tv'"))
        /\ net = <<>>

\* media_type "book" has been refused although the year, the page, the
\* number of results, the language and the sort order are illegal as well
C21_Witness ==
    /\ op = "discover_media" /\ pc = "done"
    /\ args.media_type = "book"
    /\ ~YearLegal /\ ~PageLegal /\ ~MaxResultsLegal /\ ~LanguageLegal /\ ~SortLegal
    /\ ret.exc.msg = "media_type must be 'film' or 'tv'"


(***************************************************************************)
(* Properties of the discovery query.                                      *)
(***************************************************************************)
QueryBuilt == op = "_build_discovery_params" /\ pc = "done"
\* the key of the year filter of the other media type
OtherYearKey ==
    IF args.media_config.media_type = "film" THEN "first_air_date_year"
    ELSE "primary_release_year"
OwnYearKey ==
    IF args.media_config.media_type = "film" THEN "primary_release_year"
    ELSE "first_air_date_year"

\* C22: the query built carries include_adult and include_video, both
\* false, and the api_key, sort_by and page passed; it carries with_genres
\* iff a genre is given, with_original_language iff a language is given and
\* the year under the key of its media type iff a year is given; the year
\* key of the other media type, or any further key, it never carries.
C22_QueryCarriesGivenFilters ==
    QueryBuilt =>
        LET params == ret.value
            keys == DOMAIN ret.value
        IN  /\ {"api_key", "sort_by", "page", "include_adult", "include_video"} \subseteq keys
            /\ params["include_adult"] = [t |-> "bool", n |-> 0, s |-> ""]
            /\ params["include_video"] = [t |-> "bool", n |-> 0, s |-> ""]
            /\ params["api_key"].s = args.api_key
            /\ params["sort_by"].s = args.sort_by
            /\ params["page"].n = args.page
            /\ "with_genres" \in keys <=> args.genre_id.t # "null"
            /\ "with_genres" \in keys => params["with_genres"] = args.genre_id
            /\ "with_original_language" \in keys <=> args.language.t # "none"
            /\ "with_original_language" \in keys =>
                  params["with_original_language"] = args.language
            /\ OwnYearKey \in keys <=> args.year.t # "null"
            /\ OwnYearKey \in keys => params[OwnYearKey] = args.year
            /\ OtherYearKey \notin keys
            /\ keys \subseteq {"api_key", "sort_by", "page", "include_adult", "include_video",
                               "with_genres", "with_original_language", OwnYearKey}

\* a TV query with a year and a genre and without a language
C22_Witness ==
    /\ QueryBuilt
    /\ args.media_config.media_type = "tv"
    /\ args.year = JInt(1900) /\ args.genre_id = JInt(18) /\ args.language = LNone
    /\ DOMAIN ret.value = {"api_key", "sort_by", "page", "include_adult", "include_video",
                           "with_genres", "first_air_date_year"}
    /\ ret.value["first_air_date_year"] = JInt(1900)


(***************************************************************************)
(* The Other bucket and the acceptance of a reply.                         *)
(***************************************************************************)
\* the sampling call raised
SamplingRaised(reply) == reply.outcome = "raise"

\* C23: a genre goes to Other only by fallback: when its sampling call
\* raised, or when the reply is none of the accepted bucket values; a reply
\* that names a bucket is never the reason for Other.
C23_OtherOnlyByFallback ==
    /\ (SingleGenreDone /\ ~InTable(args.genre_name) /\ ret = Return("Other")) =>
          (SamplingRaised(loc.response) \/ ~ReplyInSet(loc.response))
    /\ (MoodResolved /\ ~InTable(loc.genre_name) /\ loc.mood = "Other") =>
          (SamplingRaised(loc.response) \/ ~ReplyInSet(loc.response))

\* the text is one bucket word with nothing but whitespace around it
PaddedBucketWord(text, word) ==
    \E k \in 1..Len(text) :
        /\ text[k] = word
        /\ \A i \in 1..Len(text) : i # k => text[i] \in {" ", "\n"}
IsPaddedBucketWord(text) ==
    \E word \in {"Dark", "Light", "Serious", "Fun", "Other"} : PaddedBucketWord(text, word)

\* the reply of a settled categorization is a string
RepliedWithText ==
    /\ SingleGenreDone /\ ~InTable(args.genre_name)
    /\ loc.response.outcome = "ok" /\ loc.response.text.t = "str"

\* C24: a reply whose text is a string is accepted, and its bucket returned,
\* iff the text is one of the five bucket words with at most whitespace
\* around it; a word in another letter case and a word with another word
\* beside it are rejected, and a rejected reply gives Other without a
\* warning.
C24_TrimmedCaseExactAcceptance ==
    RepliedWithText =>
        /\ \A word \in {"Dark", "Light", "Serious", "Fun", "Other"} :
              PaddedBucketWord(loc.response.text.text, word) => ret = Return(word)
        /\ ~IsPaddedBucketWord(loc.response.text.text) => ret = Return("Other")
        /\ loc.response.text.text = <<" ", "Fun", "\n">> => ret = Return("Fun")
        /\ loc.response.text.text \in {<<"dark">>, <<"Dark", " ", "Fun">>} =>
              ret = Return("Other")
        /\ Len(net) = 1

\* " Fun\n" has been accepted as Fun
C24_Witness ==
    /\ RepliedWithText
    /\ loc.response.text.text = <<" ", "Fun", "\n">>
    /\ ret = Return("Fun")

\* "dark" has been rejected
C24_WitnessRejected ==
    /\ RepliedWithText
    /\ loc.response.text.text = <<"dark">>
    /\ ret = Return("Other")


(***************************************************************************)
(* The order of the sampling calls of categorize_all_genres.               *)
(***************************************************************************)
\* the fetched names the static table does not have
Unknown == {name \in DOMAIN loc.genres : ~InTable(name)}
\* the places in `net` of the sampling calls for a genre
CallsFor(name) == {i \in 1..Len(net) : net[i] = CategorizationCall(name)}
\* the genre is in a bucket already
Placed(name) == PlacesOf(loc.categorized, name) # {}

\* C25: categorize_all_genres asks the model about the fetched names the
\* table lacks and about nothing else, once each, in increasing order of
\* name; a call is issued only when every smaller name is in its bucket,
\* so that at most one call is outstanding; names are placed in increasing
\* order; no call is issued unless the fetch gave a map; and on return
\* every name the table lacks has had its call.
C25_SamplingSequentialInNameOrder ==
    op = "categorize_all_genres" =>
        /\ net # <<>> => loc.genres # EmptyMap
        /\ \A i \in 1..Len(net) :
              net[i].call = "ctx.sample" =>
                  \E name \in Unknown : net[i] = CategorizationCall(name)
        /\ \A name \in Unknown : Cardinality(CallsFor(name)) <= 1
        /\ \A g, h \in Unknown :
              (Rank(g) < Rank(h) /\ CallsFor(h) # {}) =>
                  /\ CallsFor(g) # {}
                  /\ \A i \in CallsFor(g), j \in CallsFor(h) : i < j
                  /\ Placed(g)
        /\ \A g, h \in DOMAIN loc.genres : (Rank(g) < Rank(h) /\ Placed(h)) => Placed(g)
        /\ pc = "sample" =>
              /\ CallsFor(loc.genre_name) # {}
              /\ \A name \in Unknown \ {loc.genre_name} : CallsFor(name) # {} => Placed(name)
        /\ AllGenresReturned => \A name \in Unknown : Cardinality(CallsFor(name)) = 1

\* Western and horror, beside Action and Horror of the table, have been
\* asked about in this order and the mapping has been returned
C25_Witness ==
    /\ AllGenresReturned
    /\ DOMAIN loc.genres = {"Action", "Horror", "Western", "horror"}
    /\ net = <<CategorizationCall("Western"), CategorizationCall("horror")>>


(***************************************************************************)
(* Degradation in categorize_all_genres.                                   *)
(***************************************************************************)
\* the warnings about a genre
WarningsFor(name) ==
    {i \in 1..Len(net) :
        /\ net[i].call = "ctx.warning"
        /\ \E e \in SampleErrors \cup {CategorizationFailure(SampleReply("ok", PyNone, NoExc))} :
              net[i] = CategorizationWarning(name, e)}
Degraded == \E i \in 1..Len(net) : net[i].call = "ctx.warning"

\* C26: once the classification of a genre has degraded, categorize_all_genres
\* does not end with an exception: the genre goes to Other and to no other
\* bucket, the later names are still classified, each unknown one with a
\* sampling call of its own, and the mapping returned has every fetched
\* name in one place.
C26_FallbackNeverAborts ==
    (op = "categorize_all_genres" /\ Degraded) =>
        /\ ret.kind # "raise"
        /\ \A name \in DOMAIN loc.genres :
              (WarningsFor(name) # {} /\ Placed(name)) =>
                  PlacesOf(loc.categorized, name) \subseteq {"Other"} \X (1..(MaxCatalog + 1))
        /\ pc = "done" =>
              /\ ret.kind = "return"
              /\ \A name \in DOMAIN loc.genres : Cardinality(PlacesOf(ret.value, name)) = 1
              /\ \A name \in Unknown : Cardinality(CallsFor(name)) = 1


(***************************************************************************)
(* The failures of the model-serving path.                                 *)
(***************************************************************************)
\* the second task of the comparison has ended on the response it was given
OllamaEnded ==
    op = "compare_llms" /\ loc.ollama.state = "done" /\ loc.response.outcome # "cancelled"
OllamaHttpError == loc.response.outcome = "ok" /\ loc.response.status \notin 200..299
OllamaUnreachable == loc.response.outcome = "transport"
OllamaUnparseable ==
    /\ loc.response.outcome = "ok" /\ loc.response.status \in 200..299
    /\ loc.response.body.kind = "invalid_json"

\* the texts of the three failures
ProviderErrorText ==
    "Ollama API error: " \o ToString(loc.response.status) \o " - " \o loc.response.text
ConnectivityErrorText ==
    "Failed to connect to Ollama API at http://localhost:11434"
    \o ". Is the Ollama server running? Error: " \o loc.response.text
MalformedErrorText == "Ollama error: Expecting value"

\* C27: the model-serving path ends an HTTP error status with an error that
\* carries the status code and the body, a transport failure with a
\* connection error that names the endpoint, and a body that is no JSON
\* with an error of a third text; the AgentResponse of the path records
\* that text as its error and has no text.
C27_OllamaFailureClasses ==
    /\ OllamaEnded =>
          /\ OllamaHttpError => loc.ollama.result = Obj("RuntimeError", <<ProviderErrorText>>, 0)
          /\ OllamaUnreachable =>
                loc.ollama.result = Obj("ConnectionError", <<ConnectivityErrorText>>, 0)
          /\ OllamaUnparseable =>
                loc.ollama.result = Obj("RuntimeError", <<MalformedErrorText>>, 0)
          /\ Cardinality({ProviderErrorText, ConnectivityErrorText, MalformedErrorText}) = 3
    /\ (OllamaEnded /\ CompareReturned
        /\ (OllamaHttpError \/ OllamaUnreachable \/ OllamaUnparseable)) =>
          /\ ret.value.alternative_response.text = PyNone
          /\ ret.value.alternative_response.error.t = "str"
          /\ ret.value.alternative_response.error.text = loc.ollama.result.text

\* the server was unreachable and the comparison records the connection error
C27_Witness ==
    /\ OllamaEnded /\ CompareReturned /\ OllamaUnreachable
    /\ ret.value.alternative_response.error.text =
          <<"Failed to connect to Ollama API at http://localhost:11434. Is the Ollama server running? Error: Connection refused">>


(***************************************************************************)
(* The warnings of _categorize_single_genre.                               *)
(***************************************************************************)
\* the warning calls recorded
Warnings == SelectSeq(net, LAMBDA call : call.call = "ctx.warning")
\* the text of the warning about a genre and an error
WarningText(genre_name, type, msg) ==
    "LLM categorization failed for '" \o genre_name \o "' (" \o type \o ": " \o msg \o ")"

\* C28 as stated: the categorization of one genre has warned iff its
\* sampling call raised; then once, with the genre and the type and message
\* of the error; a genre of the table, an accepted reply and every other
\* reply of a call that returned give no warning.
C28_WarningIffSamplingRaised ==
    SingleGenreDone =>
        /\ InTable(args.genre_name) => Warnings = <<>>
        /\ ~InTable(args.genre_name) =>
              /\ SamplingRaised(loc.response) =>
                    Warnings = <<WarningCall(WarningText(args.genre_name,
                                                         loc.response.exc.type,
                                                         loc.response.exc.msg))>>
              /\ ~SamplingRaised(loc.response) => Warnings = <<>>

\* the reply of a call that returned has no text to strip
ReplyWithoutText(reply) == reply.outcome = "ok" /\ reply.text.t # "str"

\* C28, amended: the categorization of one genre has warned iff its try
\* block raised, that is iff the sampling call raised or its reply has no
\* text to strip; then once, with the genre and the type and message of the
\* error (the AttributeError of the strip for a reply without text); a
\* genre of the table, an accepted reply and a reply whose text is a string
\* outside the bucket values give no warning.
C28_WarningIffTryBlockRaised ==
    SingleGenreDone =>
        /\ InTable(args.genre_name) => Warnings = <<>>
        /\ ~InTable(args.genre_name) =>
              /\ SamplingRaised(loc.response) =>
                    Warnings = <<WarningCall(WarningText(args.genre_name,
                                                         loc.response.exc.type,
                                                         loc.response.exc.msg))>>
              /\ ReplyWithoutText(loc.response) =>
                    Warnings = <<WarningCall(WarningText(args.genre_name, "AttributeError",
                                     "'NoneType' object has no attribute 'strip'"))>>
              /\ (~SamplingRaised(loc.response) /\ ~ReplyWithoutText(loc.response)) =>
                    Warnings = <<>>

\* a reply without text has been warned about, and the genre is in Other
C28_Witness ==
    /\ SingleGenreDone
    /\ args.genre_name = "Western"
    /\ ReplyWithoutText(loc.response)
    /\ Len(Warnings) = 1
    /\ ret = Return("Other")


(***************************************************************************)
(* The failures of fetch_genres and the place of the parsing.              *)
(***************************************************************************)
\* the errors fetch_genres is specified to end with
ClassifiedFailure(e) ==
    \/ e.type = "ValueError" /\ e.msg = "TMDB_API_KEY not configured"
    \/ e.type = "RuntimeError" /\ e.msg \in {"TMDB API error", "TMDB API returned invalid JSON"}
    \/ e.type = "ConnectionError" /\ e.msg = "Failed to connect to TMDB API"

\* C29: whatever the provider does, fetch_genres ends by returning a merged
\* map or with one of the configuration, provider, malformed-response and
\* connectivity errors; no other exception reaches the caller.
C29_OnlyClassifiedFailures ==
    FetchDone => (ret.kind = "return" \/ (ret.kind = "raise" /\ ClassifiedFailure(ret.exc)))

\* the film request succeeded and its body is no JSON
FilmBodyUnparseable ==
    /\ op = "fetch_genres"
    /\ RequestSucceeded(loc.movie_response)
    /\ loc.movie_response.body.kind = "invalid_json"

\* C30: no body is parsed before both requests have returned a success
\* status: an outcome of the parsing, the map or an error other than the
\* provider's and the connectivity one, comes only after two successes;
\* after a film response with a success status and a body that is no JSON
\* the TV list is still requested, and the invocation ends with the TV
\* request's provider or connectivity error when that request fails and
\* with the malformed-response error only when it succeeds.
C30_ParsingAfterBothRequests ==
    /\ (FetchDone /\ net # <<>>
        /\ (ret.kind = "return" \/ ret.exc.msg \notin {"TMDB API error",
                                                       "Failed to connect to TMDB API"})) =>
          (RequestSucceeded(loc.movie_response) /\ RequestSucceeded(loc.tv_response))
    /\ FilmBodyUnparseable =>
          /\ pc \in {"get_tv", "parse", "done"}
          /\ pc = "get_tv" => (ret = NoReturn /\ net = <<"/genre/movie/list">>)
          /\ pc \in {"parse", "done"} => net = <<"/genre/movie/list", "/genre/tv/list">>
          /\ pc = "done" =>
                /\ (loc.tv_response.outcome = "ok" /\ loc.tv_response.status \notin 200..299) =>
                      ret = Raise(Exc("RuntimeError", "TMDB API error",
                                      loc.tv_response.status, loc.tv_response.text))
                /\ loc.tv_response.outcome = "transport" =>
                      ret = Raise(Exc("ConnectionError", "Failed to connect to TMDB API",
                                      0, loc.tv_response.text))
                /\ RequestSucceeded(loc.tv_response) =>
                      ret = Raise(Exc("RuntimeError", "TMDB API returned invalid JSON", 0, ""))

\* the film body was no JSON and the TV request ended with status 500:
\* the provider error is reported
C30_Witness ==
    /\ FetchDone /\ FilmBodyUnparseable
    /\ loc.tv_response.outcome = "ok" /\ loc.tv_response.status = 500
    /\ ret.kind = "raise" /\ ret.exc.msg = "TMDB API error" /\ ret.exc.status = 500

====
